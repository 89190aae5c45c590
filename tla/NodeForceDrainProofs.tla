------------------------ MODULE NodeForceDrainProofs ------------------------
(***************************************************************************)
(* The NodeForceDrain controller: types, that every drain is recorded, and *)
(* that only pods of drains that are due are deleted, and in time, for any *)
(* number of nodes and pods.                                               *)
(***************************************************************************)
EXTENDS NodeForceDrain, OrderTheorems

\* The history: a drain that goes on, at the server or in the cache, was asked
\* for.
HistoryInv ==
  \A n \in Nodes :
    /\ \A r \in recent[n] : r.at <= now
    /\ \A m \in {node[n], nodeSeen[n]} : Drains(m) => \E r \in recent[n] : r.id = m.applied

\* Nothing is left of a reconcile that is over.
RestInv ==
  pc = "idle" => /\ copy = Fresh /\ status = Fresh.observed
                 /\ draining = {} /\ out = {} /\ todo = {} /\ victims = {}
                 /\ later = {} /\ ~failed

\* What is not news is in the caches, and a NodeForceDrain that exists is found.
CachesInv ==
  /\ "fd" \notin news => fdSeen = fd
  /\ \A n \in Nodes \ news : nodeSeen[n] = node[n]
  /\ fd.exists => fdSeen.exists /\ (pc # "idle" => copy.exists)

\* A drain that is not recorded is about to be: by the reconcile that is under
\* way, or by the one that a request or an event will start.
Recorded(n) == fd.observed[n] # None /\ fd.observed[n].id = node[n].applied
RecordInv ==
  fd.exists =>
    \A n \in Selected : Drains(node[n]) =>
      Recorded(n) \/ queued \/ {"fd", n} \cap news # {} \/ pc = "observe"

\* The drains of a node are numbered in the order in which they begin, and the
\* cache and the observations are of the past.
Observations == {fd.observed, fdSeen.observed, copy.observed, status}
OrderInv ==
  /\ \A n \in Nodes :
       /\ node[n].applied <= node[n].desired
       /\ nodeSeen[n].applied <= node[n].applied
  /\ \A s \in Observations, n \in Nodes : s[n] # None => s[n].id <= node[n].applied

\* A drain is observed after it was asked for, for the first time.
SinceInv ==
  \A s \in Observations, n \in Nodes :
    s[n] # None /\ s[n].id \in {node[n].applied, nodeSeen[n].applied} =>
      \E r \in recent[n] : r.id = s[n].id /\ r.at <= s[n].at

\* The reconcile is at work on nodes that are due and on their pods, or on names
\* that new pods have taken.
DueInv ==
  /\ todo # {} \/ victims # {} => pc \in {"drain", "force"} /\ copy.exists
  /\ pc \in {"drain", "force"} /\ copy.exists => out \subseteq Selected /\ \A n \in out : DueOn(n)
  /\ \A p \in victims \ replaced : pod[p].node \in out /\ Candidate(p)

-----------------------------------------------------------------------------
(* Types.                                                                  *)

ObjectsOK ==
  /\ fd \in NodeForceDrain /\ fdSeen \in NodeForceDrain
  /\ node \in [Nodes -> Node] /\ nodeSeen \in [Nodes -> Node]
  /\ pod \in [Pods -> Pod] /\ daemonSet \in BOOLEAN
  /\ news \subseteq Nodes \cup {"fd"}
WorkerOK ==
  /\ copy \in NodeForceDrain /\ status \in Observed
  /\ failed \in BOOLEAN /\ later \subseteq Nat
  /\ pc \in {"idle", "observe", "drain", "force"}
  /\ draining \subseteq Nodes /\ out \subseteq draining /\ todo \subseteq out
  /\ victims \subseteq Pods /\ replaced \subseteq Pods
QueueOK == queued \in BOOLEAN /\ wake \subseteq Nat /\ \A t, u \in wake : t = u
HistoryOK ==
  /\ now \in 0..MaxTime /\ faults \in 0..MaxFaults
  /\ recent \in [Nodes -> SUBSET Request]
  /\ overdue \in [Pods -> Nat] /\ excuses \in [Pods -> Nat]

\* The parts of the type invariant.
LEMMA TypeParts == TypeOK <=> ObjectsOK /\ WorkerOK /\ QueueOK /\ HistoryOK
  BY DEF TypeOK, ObjectsOK, WorkerOK, QueueOK, HistoryOK

\* The empty object has a type.
LEMMA FreshOK == Fresh \in NodeForceDrain /\ Fresh.observed \in Observed /\ ~Fresh.exists
  BY DEF Fresh, NodeForceDrain, Observed

\* The end of a reconcile.
LEMMA ReturnOK == ASSUME Return PROVE WorkerOK'
  BY FreshOK DEF Return, WorkerOK

\* One delayed request is kept, the earliest.
LEMMA RequeueOK ==
  ASSUME QueueOK, NEW S \in SUBSET Nat, Requeue(S)
  PROVE  wake' \subseteq Nat /\ \A t, u \in wake' : t = u
<1>1. CASE wake \cup S = {}
  BY <1>1 DEF Requeue
<1>2. CASE wake \cup S # {}
  <2>1. wake \cup S \in SUBSET Nat
    BY DEF QueueOK
  <2>2. Earliest(wake \cup S) \in wake \cup S
    BY <1>2, <2>1, FirstInstant DEF Earliest
  <2> QED BY <1>2, <2>1, <2>2 DEF Requeue
<1> QED BY <1>1, <1>2

\* The counters stay in their bounds.
LEMMA BoundsOK ==
  ASSUME TypeOK
  PROVE  /\ now \in Nat /\ faults \in Nat
         /\ faults > 0 => faults - 1 \in 0..MaxFaults
         /\ now < MaxTime => now + 1 \in 0..MaxTime
  BY ConstantsAssumption DEF TypeOK

\* The beginning of a reconcile.
LEMMA BeginOK == ASSUME TypeOK, RestInv, Begin PROVE WorkerOK'
<1>1. fdSeen \in NodeForceDrain /\ nodeSeen \in [Nodes -> Node] /\ now \in 0..MaxTime
  BY DEF TypeOK
<1>2. draining' \subseteq Nodes /\ copy' \in NodeForceDrain /\ UNCHANGED <<victims, failed, replaced>>
  BY <1>1, ConstantsAssumption DEF Begin, NodesOf
<1>3. victims = {} /\ replaced \subseteq Pods /\ failed \in BOOLEAN /\ status \in Observed
  BY DEF TypeOK, RestInv, Begin
<1>4. ASSUME NEW n \in Unobserved(fdSeen, draining'), pc' = "observe", UNCHANGED <<out, todo, later>>,
             status' = [fdSeen.observed EXCEPT ![n] = [id |-> nodeSeen[n].applied, at |-> now]]
      PROVE  WorkerOK'
  <2>1. n \in Nodes
    BY <1>2 DEF Unobserved
  <2>2. [id |-> nodeSeen[n].applied, at |-> now] \in [id: 0..MaxDrains, at: 0..MaxTime]
    BY <1>1, <2>1 DEF Node
  <2>3. status' \in Observed
    BY <1>1, <1>4, <2>1, <2>2 DEF NodeForceDrain, Observed
  <2>4. out = {} /\ todo = {} /\ later = {}
    BY DEF RestInv, Begin
  <2> QED BY <1>2, <1>3, <1>4, <2>3, <2>4 DEF WorkerOK
<1>5. ASSUME Unobserved(fdSeen, draining') = {}, pc' = "drain", UNCHANGED status,
             out' = {n \in draining' : DueAt(fdSeen, n) <= now},
             later' = {DueAt(fdSeen, n) : n \in draining' \ out'},
             todo' = IF GracePeriodOf(fdSeen) = 0 THEN {} ELSE out'
      PROVE  WorkerOK'
  <2>1. ASSUME NEW n \in draining' PROVE DueAt(fdSeen, n) \in Nat
    <3>1. fdSeen.observed[n] # None /\ n \in Nodes
      BY <1>2, <1>5 DEF Unobserved
    <3>2. fdSeen.observed[n] \in [id: 0..MaxDrains, at: 0..MaxTime]
      BY <1>1, <3>1 DEF NodeForceDrain, Observed
    <3>3. GracePeriodOf(fdSeen) \in Nat
      BY ConstantsAssumption DEF GracePeriodOf
    <3> QED BY <3>2, <3>3 DEF DueAt
  <2>2. out' \subseteq draining' /\ todo' \subseteq out'
    BY <1>5
  <2>3. later' \subseteq Nat
    BY <1>5, <2>1
  <2> QED BY <1>2, <1>3, <1>5, <2>2, <2>3 DEF WorkerOK
<1> QED BY <1>4, <1>5 DEF Begin

\* The steps of a reconcile that has begun.
LEMMA ReconcileOK == ASSUME TypeOK, Reconcile PROVE TypeOK'
<1> SUFFICES ObjectsOK' /\ WorkerOK' /\ QueueOK' /\ HistoryOK'
  BY TypeParts, PTL
<1>0. ObjectsOK /\ WorkerOK /\ QueueOK /\ HistoryOK
  BY TypeParts
<1> USE DEF objects, caches, queue, history
<1>1. CASE Observe
  <2>1. WorkerOK'
    BY <1>1, ReturnOK DEF Observe
  <2>2. HistoryOK'
    BY <1>0, <1>1 DEF Observe, HistoryOK
  <2>3. fd' \in NodeForceDrain
    BY <1>0, <1>1 DEF Observe, ObjectsOK, WorkerOK, NodeForceDrain
  <2>4. ObjectsOK'
    BY <1>0, <1>1, <2>3 DEF Observe, ObjectsOK
  <2>5. {now + 1} \in SUBSET Nat
    BY BoundsOK
  <2>6. QueueOK'
    BY <1>0, <1>1, <2>5, RequeueOK DEF Observe, QueueOK
  <2> QED BY <2>1, <2>2, <2>4, <2>6
<1>2. CASE StartForceDelete
  BY <1>0, <1>2 DEF StartForceDelete, ObjectsOK, WorkerOK, QueueOK, HistoryOK
<1>3. CASE Finish
  <2>1. WorkerOK'
    BY <1>3, ReturnOK DEF Finish
  <2>2. HistoryOK' /\ ObjectsOK'
    BY <1>0, <1>3 DEF Finish, HistoryOK, ObjectsOK
  <2>3. later \cup MaxInterval \in SUBSET Nat
    <3>1. now + MaxReconcileInterval \in Nat
      BY BoundsOK, ConstantsAssumption
    <3> QED BY <1>0, <3>1 DEF WorkerOK, MaxInterval
  <2>4. QueueOK'
    BY <1>0, <1>3, <2>3, RequeueOK DEF Finish, QueueOK
  <2> QED BY <2>1, <2>2, <2>4
<1>4. ASSUME NEW n \in Nodes, ListPods(n) PROVE ObjectsOK' /\ WorkerOK' /\ QueueOK' /\ HistoryOK'
  <2>1. ObjectsOK' /\ QueueOK'
    BY <1>0, <1>4 DEF ListPods, ObjectsOK, QueueOK
  <2>2. \A P \in SUBSET Pods : ForceDeletions(P) \subseteq Nat
    <3>1. \A p \in Pods : pod[p].start + PodForceDeleteGracePeriod \in Nat
      BY <1>0, ConstantsAssumption DEF ObjectsOK, Pod
    <3> QED BY <3>1 DEF ForceDeletions
  <2>3. now + PodForceDeleteGracePeriod \in Nat
    BY BoundsOK, ConstantsAssumption
  <2>4. later' \subseteq Nat
    <3>1. PICK L \in SUBSET Pods :
             \/ later' = later \cup ForceDeletions(L)
             \/ later' \subseteq later \cup {now + PodForceDeleteGracePeriod}
      BY <1>4 DEF ListPods, PodsOn
    <3> QED BY <1>0, <2>2, <2>3, <3>1 DEF WorkerOK
  <2>5. victims' \subseteq Pods /\ replaced' = {} /\ todo' \subseteq todo /\ UNCHANGED <<pc, copy, status, draining, out, failed>>
    BY <1>4 DEF ListPods, PodsOn
  <2>6. WorkerOK'
    BY <1>0, <2>4, <2>5 DEF WorkerOK
  <2>7. /\ faults' \in 0..MaxFaults
        /\ UNCHANGED <<now, recent, overdue>>
        /\ \E I : excuses' = [p \in Pods |-> IF p \in I THEN excuses[p] + 1 ELSE excuses[p]]
    BY <1>0, <1>4, BoundsOK DEF ListPods, HistoryOK
  <2>8. HistoryOK'
    BY <1>0, <2>7 DEF HistoryOK
  <2> QED BY <2>1, <2>6, <2>8
<1>5. ASSUME NEW p \in Pods, DeletePod(p) PROVE ObjectsOK' /\ WorkerOK' /\ QueueOK' /\ HistoryOK'
  <2>1. pod[p] \in Pod
    BY <1>0 DEF ObjectsOK
  <2>2. pod' \in [Pods -> Pod]
    BY <1>0, <1>5, <2>1 DEF DeletePod, ObjectsOK, HistoryOK, Pod
  <2>3. ObjectsOK' /\ QueueOK' /\ HistoryOK'
    BY <1>0, <1>5, <2>2 DEF DeletePod, ObjectsOK, QueueOK, HistoryOK
  <2>4. WorkerOK'
    BY <1>0, <1>5 DEF DeletePod, WorkerOK
  <2> QED BY <2>3, <2>4
<1> QED BY <1>1, <1>2, <1>3, <1>4, <1>5 DEF Reconcile

\* The surroundings.
LEMMA EnvironmentOK == ASSUME TypeOK, HistoryInv, Environment PROVE TypeOK'
<1> SUFFICES ObjectsOK' /\ WorkerOK' /\ QueueOK' /\ HistoryOK'
  BY TypeParts, PTL
<1>0. ObjectsOK /\ WorkerOK /\ QueueOK /\ HistoryOK
  BY TypeParts
<1> USE DEF objects, caches, queue, history, worker
<1>1. CASE Deliver
  <2>1. nodeSeen' \in [Nodes -> Node] /\ fdSeen' \in NodeForceDrain
    BY <1>0, <1>1 DEF Deliver, ObjectsOK
  <2> QED BY <1>0, <1>1, <2>1 DEF Deliver, ObjectsOK, WorkerOK, QueueOK, HistoryOK
<1>2. CASE Wake
  BY <1>0, <1>2 DEF Wake, ObjectsOK, WorkerOK, QueueOK, HistoryOK
<1>3. CASE Restart
  <2>1. WorkerOK'
    BY <1>3, ReturnOK DEF Restart
  <2> QED BY <1>0, <1>3, <2>1, BoundsOK DEF Restart, ObjectsOK, QueueOK, HistoryOK, NodeForceDrain
<1>4. CASE Orphan
  <2>1. excuses' \in [Pods -> Nat]
    BY <1>0, <1>4 DEF Orphan, HistoryOK
  <2> QED BY <1>0, <1>4, <2>1, BoundsOK DEF Orphan, ObjectsOK, WorkerOK, QueueOK, HistoryOK
<1>5. CASE Delete
  BY <1>0, <1>5, BoundsOK, FreshOK DEF Delete, ObjectsOK, WorkerOK, QueueOK, HistoryOK
<1>6. CASE Tick
  <2>2. recent' \in [Nodes -> SUBSET Request]
    BY <1>0, <1>6 DEF Tick, HistoryOK
  <2>3. overdue' \in [Pods -> Nat]
    BY <1>0, <1>6 DEF Tick, HistoryOK
  <2> QED BY <1>0, <1>6, <2>2, <2>3, BoundsOK DEF Tick, ObjectsOK, WorkerOK, QueueOK, HistoryOK
<1>7. ASSUME NEW n \in Nodes, StartDrain(n) \/ EndDrain(n)
      PROVE  ObjectsOK' /\ WorkerOK' /\ QueueOK' /\ HistoryOK'
  <2>1. node[n] \in Node
    BY <1>0 DEF ObjectsOK
  <2>2. CASE StartDrain(n)
    <3>1. node[n].desired + 1 \in 0..MaxDrains
      BY <2>1, <2>2, ConstantsAssumption DEF StartDrain, Drains, Node
    <3>2. node' \in [Nodes -> Node]
      BY <1>0, <2>1, <2>2, <3>1 DEF StartDrain, ObjectsOK, Node
    <3>3. recent' \in [Nodes -> SUBSET Request]
      <4>1. [id |-> node[n].applied, at |-> now] \in Request
        BY <1>0, <2>1 DEF HistoryOK, Node, Request
      <4> QED BY <1>0, <2>2, <4>1 DEF StartDrain, HistoryOK
    <3> QED BY <1>0, <2>2, <3>2, <3>3 DEF StartDrain, ObjectsOK, WorkerOK, QueueOK, HistoryOK
  <2>3. CASE EndDrain(n)
    <3>1. node' \in [Nodes -> Node]
      BY <1>0, <2>1, <2>3 DEF EndDrain, ObjectsOK, Node
    <3>2. faults' \in 0..MaxFaults
      BY <1>0, <2>3, BoundsOK DEF EndDrain, HistoryOK
    <3> QED BY <1>0, <2>3, <3>1, <3>2 DEF EndDrain, ObjectsOK, WorkerOK, QueueOK, HistoryOK
  <2> QED BY <1>7, <2>2, <2>3
<1>8. ASSUME NEW p \in Pods, PodChanges(p) PROVE ObjectsOK' /\ WorkerOK' /\ QueueOK' /\ HistoryOK'
  <2>1. pod[p] \in Pod /\ 0 \in 0..MaxTime
    BY <1>0, ConstantsAssumption DEF ObjectsOK
  <2>2. pod' \in [Pods -> Pod]
    BY <1>0, <1>8, <2>1 DEF PodChanges, ObjectsOK, HistoryOK, Pod
  <2> QED BY <1>0, <1>8, <2>2 DEF PodChanges, ObjectsOK, WorkerOK, QueueOK, HistoryOK
<1>9. ASSUME NEW p \in Pods, Recreate(p) PROVE ObjectsOK' /\ WorkerOK' /\ QueueOK' /\ HistoryOK'
  <2>1. PICK n \in Nodes : pod' = [pod EXCEPT ![p].phase = "running", ![p].node = n]
    BY <1>9, ConstantsAssumption DEF Recreate
  <2>2. pod[p] \in Pod
    BY <1>0 DEF ObjectsOK
  <2>3. pod' \in [Pods -> Pod]
    BY <1>0, <2>1, <2>2 DEF ObjectsOK, Pod
  <2>4. replaced' \subseteq Pods
    BY <1>0, <1>9 DEF Recreate, WorkerOK
  <2> QED BY <1>0, <1>9, <2>3, <2>4 DEF Recreate, ObjectsOK, WorkerOK, QueueOK, HistoryOK
<1> QED BY <1>1, <1>2, <1>3, <1>4, <1>5, <1>6, <1>7, <1>8, <1>9 DEF Environment

\* Every step keeps the types.
LEMMA TypeStep == ASSUME TypeOK, RestInv, HistoryInv, [Next]_vars PROVE TypeOK'
<1>1. CASE Begin
  <2>1. ObjectsOK' /\ QueueOK' /\ HistoryOK'
    BY <1>1 DEF Begin, TypeOK, objects, caches, history, ObjectsOK, QueueOK, HistoryOK
  <2> QED BY <1>1, <2>1, BeginOK, TypeParts, PTL
<1>2. CASE CallFails
  <2>1. CASE pc = "observe" /\ Return /\ queued' = TRUE /\ UNCHANGED wake
    <3>1. ObjectsOK' /\ QueueOK' /\ HistoryOK'
      BY <1>2, <2>1, BoundsOK DEF CallFails, TypeOK, objects, caches, history, ObjectsOK, QueueOK, HistoryOK
    <3> QED BY <2>1, <3>1, ReturnOK, TypeParts, PTL
  <2>2. CASE /\ failed' = TRUE /\ todo' \subseteq todo /\ victims' \subseteq victims
             /\ UNCHANGED <<queue, pc, copy, status, draining, out, later, replaced>>
    BY <1>2, <2>2, BoundsOK DEF CallFails, TypeOK, objects, caches, history, queue
  <2> QED BY <1>2, <2>1, <2>2 DEF CallFails
<1>3. CASE UNCHANGED vars
  BY <1>3 DEF vars, TypeOK
<1> QED BY <1>1, <1>2, <1>3, ReconcileOK, EnvironmentOK DEF Next

-----------------------------------------------------------------------------
(* What is remembered, and what is known of it.                            *)

\* Return forgets everything.
LEMMA RestStep == ASSUME TypeOK, RestInv, [Next]_vars PROVE RestInv'
<1>1. CASE Return
  BY <1>1 DEF Return, RestInv
<1>2. CASE UNCHANGED <<pc, copy, status, draining, out, todo, victims, later, failed>>
  BY <1>2 DEF RestInv
<1>3. CASE pc' # "idle"
  BY <1>3 DEF RestInv
<1>4. \A n \in Nodes : ListPods(n) => pc' # "idle"
  BY DEF ListPods
<1>5. \A p \in Pods : DeletePod(p) => pc' # "idle"
  BY DEF DeletePod
<1> QED BY <1>1, <1>2, <1>3, <1>4, <1>5
        DEF Next, Reconcile, Environment, Begin, Observe, StartForceDelete, Finish, CallFails,
            Deliver, Wake, Restart, Orphan, Delete, Tick, StartDrain, EndDrain, PodChanges,
            Recreate, worker, vars

\* The reconcile, and most of the surroundings, leave the nodes alone.
Still == UNCHANGED <<node, nodeSeen, recent, now>>
Moved == \/ Deliver \/ Restart \/ Tick \/ \E n \in Nodes : StartDrain(n) \/ EndDrain(n)
\* A step of either kind.
LEMMA StillStep == ASSUME [Next]_vars PROVE Still \/ Moved
<1> USE DEF objects, caches, history
<1>1. CASE Reconcile
  BY <1>1 DEF Reconcile, Observe, StartForceDelete, Finish, ListPods, DeletePod, Still
<1>2. CASE Begin \/ CallFails \/ UNCHANGED vars
  BY <1>2 DEF Begin, CallFails, vars, Still
<1>3. CASE Environment
  BY <1>3 DEF Environment, Wake, Orphan, Delete, PodChanges, Recreate, Still, Moved
<1> QED BY <1>1, <1>2, <1>3 DEF Next

\* The clock moves when the caches are up to date.
LEMMA HistoryStep == ASSUME TypeOK, CachesInv, HistoryInv, [Next]_vars PROVE HistoryInv'
<1> SUFFICES ASSUME NEW n \in Nodes
             PROVE  /\ \A r \in recent'[n] : r.at <= now'
                    /\ \A m \in {node'[n], nodeSeen'[n]} :
                         Drains(m) => \E r \in recent'[n] : r.id = m.applied
  BY DEF HistoryInv
<1>0. /\ \A r \in recent[n] : r.at <= now
      /\ \A m \in {node[n], nodeSeen[n]} : Drains(m) => \E r \in recent[n] : r.id = m.applied
      /\ now \in Nat /\ recent \in [Nodes -> SUBSET Request] /\ node \in [Nodes -> Node]
  BY BoundsOK DEF HistoryInv, TypeOK
<1>1. CASE Still
  BY <1>0, <1>1 DEF Still
<1>2. CASE Deliver \/ Restart
  <2>1. nodeSeen'[n] \in {nodeSeen[n], node[n]} /\ UNCHANGED <<node, recent, now>>
    BY <1>2 DEF Deliver, Restart, TypeOK, objects, history
  <2> QED BY <1>0, <2>1
<1>3. CASE Tick
  <2>1. nodeSeen[n] = node[n] /\ UNCHANGED <<node, nodeSeen>> /\ now' = now + 1
    BY <1>3 DEF Tick, Quiet, CachesInv, objects, caches
  <2>2. recent'[n] = {r \in recent[n] : r.id = node[n].applied}
    BY <1>3 DEF Tick
  <2>3. \A r \in recent[n] : r.at \in Nat
    BY <1>0 DEF Request
  <2> QED BY <1>0, <2>1, <2>2, <2>3
<1>4. ASSUME NEW m \in Nodes, StartDrain(m), m # n
      PROVE  UNCHANGED <<nodeSeen, now>> /\ node'[n] = node[n] /\ recent'[n] = recent[n]
  BY <1>0, <1>4 DEF StartDrain
<1>5. CASE StartDrain(n)
  <2>1. /\ UNCHANGED <<nodeSeen, now>> /\ node'[n].applied = node[n].applied
        /\ recent'[n] = recent[n] \cup {[id |-> node[n].applied, at |-> now]}
    BY <1>0, <1>5 DEF StartDrain, Node
  <2> DEFINE request == [id |-> node[n].applied, at |-> now]
  <2>2. request \in recent'[n] /\ request.id = node'[n].applied /\ request.at = now
    BY <2>1
  <2>3. \A r \in recent'[n] : r.at <= now'
    BY <1>0, <2>1, <2>2
  <2>4. Drains(nodeSeen'[n]) => \E r \in recent'[n] : r.id = nodeSeen'[n].applied
    BY <1>0, <2>1
  <2> HIDE DEF request
  <2> QED BY <2>2, <2>3, <2>4
<1>6. ASSUME NEW m \in Nodes, EndDrain(m)
      PROVE  UNCHANGED <<nodeSeen, now, recent>> /\ (node'[n] = node[n] \/ ~Drains(node'[n]))
  BY <1>0, <1>6 DEF EndDrain, history, Drains, Node
<1> QED BY <1>0, <1>1, <1>2, <1>3, <1>4, <1>5, <1>6, StillStep DEF Moved

\* Every change is news until it is delivered.
LEMMA CachesStep == ASSUME TypeOK, CachesInv, [Next]_vars PROVE CachesInv'
<1> USE DEF objects, caches
<1>1. CASE Begin
  BY <1>1 DEF Begin, CachesInv
<1>2. CASE Observe
  BY <1>2 DEF Observe, Return, CachesInv, TypeOK, NodeForceDrain
<1>3. CASE StartForceDelete \/ CallFails \/ Finish
  BY <1>3 DEF StartForceDelete, CallFails, Finish, Return, CachesInv
<1>4. ASSUME NEW n \in Nodes, ListPods(n) PROVE CachesInv'
  BY <1>4 DEF ListPods, CachesInv
<1>5. ASSUME NEW p \in Pods, DeletePod(p) \/ PodChanges(p) \/ Recreate(p) PROVE CachesInv'
  BY <1>5 DEF DeletePod, PodChanges, Recreate, worker, CachesInv
<1>6. CASE Deliver
  <2>1. PICK o \in news :
          /\ news' = news \ {o}
          /\ fdSeen' = IF o = "fd" THEN fd ELSE fdSeen
          /\ nodeSeen' = IF o \in Nodes THEN [nodeSeen EXCEPT ![o] = node[o]] ELSE nodeSeen
    BY <1>6 DEF Deliver
  <2>2. UNCHANGED <<fd, node, pc, copy>>
    BY <1>6 DEF Deliver, worker
  <2>3. \A n \in Nodes \ news' : nodeSeen'[n] = node[n]
    BY <2>1 DEF CachesInv, TypeOK
  <2> QED BY <2>1, <2>2, <2>3 DEF CachesInv
<1>7. CASE Wake \/ Orphan \/ Tick
  BY <1>7 DEF Wake, Orphan, Tick, worker, CachesInv
<1>8. CASE Restart
  BY <1>8 DEF Restart, Return, CachesInv
<1>9. CASE Delete
  BY <1>9, FreshOK DEF Delete, CachesInv
<1>10. ASSUME NEW n \in Nodes, StartDrain(n) \/ EndDrain(n) PROVE CachesInv'
  <2>1. \A m \in Nodes : m # n => node'[m] = node[m]
    BY <1>10 DEF StartDrain, EndDrain, TypeOK
  <2> QED BY <1>10, <2>1 DEF StartDrain, EndDrain, worker, CachesInv
<1>11. CASE UNCHANGED vars
  BY <1>11 DEF vars, CachesInv
<1> QED BY <1>1, <1>2, <1>3, <1>4, <1>5, <1>6, <1>7, <1>8, <1>9, <1>10, <1>11
        DEF Next, Reconcile, Environment

\* A reconcile that records nothing has found nothing to record.
LEMMA RecordStep == ASSUME TypeOK, CachesInv, RecordInv, [Next]_vars PROVE RecordInv'
<1> SUFFICES ASSUME fd'.exists, NEW n \in Selected, Drains(node'[n])
             PROVE  \/ fd'.observed[n] # None /\ fd'.observed[n].id = node'[n].applied
                    \/ queued' \/ {"fd", n} \cap news' # {} \/ pc' = "observe"
  BY DEF RecordInv, Recorded
<1> USE DEF objects, caches, queue
<1>0. n \in Nodes
  BY ConstantsAssumption
<1>1. CASE Begin
  <2>1. CASE {"fd", n} \cap news = {}
    <3>1. fdSeen = fd /\ nodeSeen[n] = node[n] /\ UNCHANGED <<fd, node>>
      BY <1>0, <1>1, <2>1 DEF CachesInv, Begin
    <3>2. n \in draining'
      BY <1>0, <1>1, <3>1 DEF Begin, NodesOf
    <3>3. CASE Unobserved(fdSeen, draining') = {}
      BY <3>1, <3>2, <3>3 DEF Unobserved
    <3> QED BY <1>1, <3>3 DEF Begin
  <2> QED BY <1>1, <2>1 DEF Begin
<1>2. CASE Observe
  <2>1. CASE fd.exists /\ copy # fd /\ ~copy.exists
    BY <1>2, <2>1 DEF Observe, CachesInv
  <2> QED BY <1>2, <2>1 DEF Observe
<1>3. CASE UNCHANGED <<fd, node, news>> /\ (queued' \/ (UNCHANGED queued /\ pc # "observe"))
  BY <1>3 DEF RecordInv, Recorded
<1>4. CASE StartForceDelete \/ CallFails \/ Finish
  BY <1>3, <1>4 DEF StartForceDelete, CallFails, Finish
<1>5. ASSUME NEW m \in Nodes, ListPods(m) PROVE UNCHANGED <<fd, node, news, queued>> /\ pc # "observe"
  BY <1>5 DEF ListPods
<1>6. ASSUME NEW p \in Pods, DeletePod(p) PROVE UNCHANGED <<fd, node, news, queued>> /\ pc # "observe"
  BY <1>6 DEF DeletePod
<1>7. CASE UNCHANGED <<fd, node, news, queued, pc>>
  BY <1>7 DEF RecordInv, Recorded
<1>8. ASSUME NEW p \in Pods, PodChanges(p) \/ Recreate(p)
      PROVE  UNCHANGED <<fd, node, news, queued, pc>>
  BY <1>8 DEF PodChanges, Recreate, worker
<1>9. CASE Wake \/ Restart
  BY <1>9 DEF Wake, Restart
<1>10. CASE Orphan \/ Tick \/ UNCHANGED vars
  BY <1>7, <1>10 DEF Orphan, Tick, worker, vars
<1>11. CASE Deliver
  <2>1. PICK o \in news :
          /\ news' = news \ {o}
          /\ queued' = (queued \/ o = "fd" \/ (o \in Selected /\ fdSeen.exists))
    BY <1>11 DEF Deliver
  <2>2. UNCHANGED <<fd, node, pc>> /\ fdSeen.exists
    BY <1>11 DEF Deliver, worker, CachesInv
  <2> QED BY <2>1, <2>2 DEF RecordInv, Recorded
<1>12. CASE Delete
  BY <1>12, FreshOK DEF Delete
<1>13. ASSUME NEW m \in Nodes, StartDrain(m) \/ EndDrain(m)
       PROVE  n \in news' \/ Recorded(n)' \/ queued' \/ {"fd", n} \cap news' # {} \/ pc' = "observe"
  <2>1. n # m => node'[n] = node[n]
    BY <1>0, <1>13 DEF StartDrain, EndDrain, TypeOK
  <2>2. news' = news \cup {m} /\ UNCHANGED <<fd, queued, pc>>
    BY <1>13 DEF StartDrain, EndDrain, worker
  <2> QED BY <2>1, <2>2 DEF RecordInv, Recorded
<1> QED BY <1>1, <1>2, <1>3, <1>4, <1>5, <1>6, <1>7, <1>8, <1>9, <1>10, <1>11, <1>12, <1>13
        DEF Next, Reconcile, Environment, Recorded

-----------------------------------------------------------------------------
(* The age of a drain.                                                     *)

\* An observation is an old one, or the one that the reconcile makes.
LEMMA ObservationStep ==
  ASSUME TypeOK, [Next]_vars, NEW s \in Observations', NEW n \in Nodes, s[n] # None
  PROVE  \/ \E r \in Observations : s[n] = r[n]
         \/ Still /\ Drains(nodeSeen[n]) /\ s[n] = [id |-> nodeSeen[n].applied, at |-> now]
<1> USE DEF objects, caches, worker
<1>0. Fresh.observed[n] = None
  BY DEF Fresh
<1>1. CASE Begin
  <2>1. UNCHANGED <<fd, fdSeen, node, nodeSeen, recent, now>> /\ copy' = fdSeen
    BY <1>1 DEF Begin, history
  <2>2. CASE s = status'
    <3>1. CASE UNCHANGED status
      BY <2>2, <3>1 DEF Observations
    <3>2. CASE \E m \in Unobserved(fdSeen, draining') :
                 status' = [fdSeen.observed EXCEPT ![m] = [id |-> nodeSeen[m].applied, at |-> now]]
      <4>1. PICK m \in Unobserved(fdSeen, draining') :
              status' = [fdSeen.observed EXCEPT ![m] = [id |-> nodeSeen[m].applied, at |-> now]]
        BY <3>2
      <4>2. fdSeen.observed \in Observed
        BY DEF TypeOK, NodeForceDrain
      <4>3. Drains(nodeSeen[m]) /\ m \in Nodes
        BY <1>1, ConstantsAssumption DEF Begin, Unobserved, NodesOf
      <4>4. CASE n = m
        BY <2>1, <2>2, <4>1, <4>2, <4>3, <4>4 DEF Observed, Still
      <4>5. CASE n # m
        BY <2>2, <4>1, <4>2, <4>5 DEF Observed, Observations
      <4> QED BY <4>4, <4>5
    <3> QED BY <1>1, <3>1, <3>2 DEF Begin
  <2> QED BY <2>1, <2>2 DEF Observations
<1>2. CASE Observe
  <2>1. fd'.observed \in {fd.observed, status} /\ UNCHANGED fdSeen
    BY <1>2 DEF Observe, TypeOK, NodeForceDrain
  <2> QED BY <1>0, <1>2, <2>1 DEF Observe, Return, Observations
<1>3. CASE Return /\ UNCHANGED fd /\ fdSeen' \in {fd, fdSeen}
  BY <1>0, <1>3 DEF Return, Observations
<1>4. CASE UNCHANGED <<fd, copy, status>> /\ fdSeen' \in {fd, fdSeen}
  BY <1>4 DEF Observations
<1>5. CASE StartForceDelete \/ CallFails \/ Finish
  BY <1>3, <1>4, <1>5 DEF StartForceDelete, CallFails, Finish
<1>6. ASSUME NEW m \in Nodes, ListPods(m) \/ StartDrain(m) \/ EndDrain(m)
      PROVE  UNCHANGED <<fd, fdSeen, copy, status>>
  BY <1>6 DEF ListPods, StartDrain, EndDrain
<1>7. ASSUME NEW p \in Pods, DeletePod(p) \/ PodChanges(p) \/ Recreate(p)
      PROVE  UNCHANGED <<fd, fdSeen, copy, status>>
  BY <1>7 DEF DeletePod, PodChanges, Recreate
<1>8. CASE Deliver \/ Wake \/ Restart \/ Orphan \/ Tick \/ UNCHANGED vars
  BY <1>3, <1>4, <1>8 DEF Deliver, Wake, Restart, Orphan, Tick, vars
<1>9. CASE Delete
  BY <1>0, <1>9 DEF Delete, Observations
<1> QED BY <1>1, <1>2, <1>4, <1>5, <1>6, <1>7, <1>8, <1>9 DEF Next, Reconcile, Environment

\* What was applied before is older.
LEMMA OrderKept ==
  ASSUME TypeOK, OrderInv, [Next]_vars, NEW n \in Nodes
  PROVE  /\ node'[n].applied \in Nat /\ node[n].applied \in Nat
         /\ node'[n].applied <= node'[n].desired
         /\ node[n].applied <= node'[n].applied
         /\ \/ node'[n].applied = node[n].applied
            \/ EndDrain(n) /\ ~Drains(node'[n])
<1>0. /\ node[n] \in Node /\ node \in [Nodes -> Node] /\ node[n].applied <= node[n].desired
      /\ node[n].applied \in Nat /\ node[n].desired \in Nat
  BY DEF TypeOK, OrderInv, Node
<1>1. CASE node'[n] = node[n]
  BY <1>0, <1>1
<1>2. CASE StartDrain(n)
  <2>1. node'[n].desired = node[n].desired + 1 /\ node'[n].applied = node[n].applied
    BY <1>0, <1>2 DEF StartDrain, Node
  <2> QED BY <1>0, <2>1
<1>3. CASE EndDrain(n)
  <2>1. /\ node'[n].desired = node'[n].applied
        /\ node'[n].applied \in {node[n].applied, node[n].desired}
    BY <1>0, <1>3 DEF EndDrain, Node
  <2> QED BY <1>0, <1>3, <2>1 DEF Drains
<1>4. CASE Deliver \/ Restart \/ Tick
  BY <1>1, <1>4 DEF Deliver, Restart, Tick, objects
<1>5. ASSUME NEW m \in Nodes, m # n, StartDrain(m) \/ EndDrain(m) PROVE node'[n] = node[n]
  BY <1>0, <1>5 DEF StartDrain, EndDrain
<1> QED BY <1>1, <1>2, <1>3, <1>4, <1>5, StillStep DEF Still, Moved

\* The cache has seen the node, or sees it now.
LEMMA NodeSeenStep ==
  ASSUME TypeOK, [Next]_vars, NEW n \in Nodes
  PROVE  \/ nodeSeen'[n] = nodeSeen[n]
         \/ nodeSeen'[n] = node[n] /\ UNCHANGED <<node, recent>>
<1>1. CASE Deliver \/ Restart
  BY <1>1 DEF Deliver, Restart, TypeOK, objects, history
<1>2. CASE Tick \/ \E m \in Nodes : StartDrain(m) \/ EndDrain(m)
  BY <1>2 DEF Tick, StartDrain, EndDrain, caches
<1> QED BY <1>1, <1>2, StillStep DEF Still, Moved

\* The ids that are observed have their types.
LEMMA ObservedOK ==
  ASSUME TypeOK, NEW s \in Observations, NEW n \in Nodes, s[n] # None
  PROVE  s[n].id \in Nat /\ s[n].at \in Nat
<1>1. s \in Observed
  BY DEF Observations, TypeOK, NodeForceDrain
<1>2. s[n] \in [id: 0..MaxDrains, at: 0..MaxTime]
  BY <1>1 DEF Observed
<1> QED BY <1>2

\* Observations are of drains that have begun.
LEMMA OrderStep == ASSUME TypeOK, OrderInv, [Next]_vars PROVE OrderInv'
<1>1. ASSUME NEW n \in Nodes
      PROVE  node'[n].applied <= node'[n].desired /\ nodeSeen'[n].applied <= node'[n].applied
  <2>0. nodeSeen[n].applied \in Nat /\ nodeSeen[n].applied <= node[n].applied
    BY DEF TypeOK, Node, OrderInv
  <2>1. CASE nodeSeen'[n] = nodeSeen[n]
    BY <2>0, <2>1, OrderKept
  <2>2. CASE nodeSeen'[n] = node[n] /\ UNCHANGED node
    BY <2>2, OrderKept
  <2> QED BY <2>1, <2>2, NodeSeenStep
<1>2. ASSUME NEW s \in Observations', NEW n \in Nodes, s[n] # None
      PROVE  s[n].id <= node'[n].applied
  <2>1. ASSUME NEW r \in Observations, s[n] = r[n] PROVE s[n].id <= node'[n].applied
    <3>1. r[n].id \in Nat /\ r[n].id <= node[n].applied
      BY <1>2, <2>1, ObservedOK DEF OrderInv
    <3> QED BY <2>1, <3>1, OrderKept
  <2>2. CASE Still /\ Drains(nodeSeen[n]) /\ s[n] = [id |-> nodeSeen[n].applied, at |-> now]
    BY <2>2 DEF Still, OrderInv
  <2> QED BY <1>2, <2>1, <2>2, ObservationStep
<1> QED BY <1>1, <1>2 DEF OrderInv

\* A request is remembered as long as its id is that of the node.
LEMMA RequestKept ==
  ASSUME TypeOK, CachesInv, [Next]_vars, NEW n \in Nodes, NEW r \in recent[n],
         r.id \in {node'[n].applied, nodeSeen'[n].applied}
  PROVE  r \in recent'[n]
<1>1. CASE Still
  BY <1>1 DEF Still
<1>2. CASE Deliver \/ Restart \/ \E m \in Nodes : EndDrain(m)
  BY <1>2 DEF Deliver, Restart, EndDrain, history
<1>3. CASE Tick
  <2>1. nodeSeen[n] = node[n] /\ UNCHANGED <<node, nodeSeen>>
    BY <1>3 DEF Tick, Quiet, CachesInv, objects, caches
  <2> QED BY <1>3, <2>1 DEF Tick
<1>4. ASSUME NEW m \in Nodes, StartDrain(m) PROVE r \in recent'[n]
  BY <1>4 DEF StartDrain, TypeOK
<1> QED BY <1>1, <1>2, <1>3, <1>4, StillStep DEF Moved

\* A drain is observed after it was asked for, and the request is remembered.
LEMMA SinceStep ==
  ASSUME TypeOK, HistoryInv, CachesInv, OrderInv, SinceInv, [Next]_vars
  PROVE  SinceInv'
<1> SUFFICES ASSUME NEW s \in Observations', NEW n \in Nodes, s[n] # None,
                    s[n].id \in {node'[n].applied, nodeSeen'[n].applied}
             PROVE  \E r \in recent'[n] : r.id = s[n].id /\ r.at <= s[n].at
  BY DEF SinceInv
<1>1. CASE Still /\ Drains(nodeSeen[n]) /\ s[n] = [id |-> nodeSeen[n].applied, at |-> now]
  <2>1. PICK r \in recent[n] : r.id = nodeSeen[n].applied /\ r.at <= now
    BY <1>1 DEF HistoryInv
  <2> QED BY <1>1, <2>1 DEF Still
<1>2. ASSUME NEW o \in Observations, s[n] = o[n]
      PROVE  \E r \in recent'[n] : r.id = s[n].id /\ r.at <= s[n].at
  <2>0. s[n].id \in Nat /\ s[n].id <= node[n].applied
    BY <1>2, ObservedOK DEF OrderInv
  <2>1. s[n].id \in {node[n].applied, nodeSeen[n].applied}
    BY <2>0, OrderKept, NodeSeenStep
  <2>2. PICK r \in recent[n] : r.id = s[n].id /\ r.at <= s[n].at
    BY <1>2, <2>1 DEF SinceInv
  <2> QED BY <2>2, RequestKept
<1> QED BY <1>1, <1>2, ObservationStep

\* A node that is due stays so while the reconcile lasts.
LEMMA DueKept ==
  ASSUME TypeOK, [Next]_vars, pc # "idle", NEW n \in Nodes
  PROVE  UNCHANGED now /\ recent[n] \subseteq recent'[n]
<1>1. ~Tick
  BY DEF Tick, Quiet
<1>2. CASE Deliver \/ Restart
  BY <1>2 DEF Deliver, Restart, history
<1>3. ASSUME NEW m \in Nodes, StartDrain(m) \/ EndDrain(m)
      PROVE  UNCHANGED now /\ recent[n] \subseteq recent'[n]
  BY <1>3 DEF StartDrain, EndDrain, history, TypeOK
<1> QED BY <1>1, <1>2, <1>3, StillStep DEF Still, Moved

\* A pod that may be deleted stays so: daemon sets are not created again.
LEMMA CandidateKept ==
  ASSUME [Next]_vars, NEW p \in Pods, Candidate(p) PROVE Candidate(p)'
<1>1. UNCHANGED daemonSet \/ ~daemonSet'
  BY DEF Next, Reconcile, Environment, Begin, Observe, StartForceDelete, Finish, ListPods,
         DeletePod, CallFails, Deliver, Wake, Restart, Orphan, Delete, Tick, StartDrain,
         EndDrain, PodChanges, Recreate, objects, vars
<1> QED BY <1>1 DEF Candidate

\* The reconcile picks nodes that are due.
LEMMA BeginDue ==
  ASSUME TypeOK, RestInv, SinceInv, Begin PROVE DueInv'
<1>1. victims' = {} /\ copy' = fdSeen /\ UNCHANGED <<recent, now>>
  BY DEF Begin, RestInv, history
<1>2. CASE pc' = "observe" /\ UNCHANGED todo
  BY <1>1, <1>2 DEF Begin, RestInv, DueInv
<1>3. CASE pc' = "drain"
  <2>1. /\ Unobserved(fdSeen, draining') = {}
        /\ out' = {n \in draining' : DueAt(fdSeen, n) <= now}
        /\ todo' = IF GracePeriodOf(fdSeen) = 0 THEN {} ELSE out'
        /\ draining' = {n \in NodesOf(fdSeen) : Drains(nodeSeen[n])}
    BY <1>3 DEF Begin
  <2>2. todo' # {} => fdSeen.exists
    BY <2>1 DEF GracePeriodOf
  <2>3. ASSUME fdSeen.exists, NEW n \in out'
        PROVE  n \in Selected /\ DueOn(n)
    <3>1. /\ n \in Selected /\ n \in Nodes /\ Drains(nodeSeen[n])
          /\ fdSeen.observed[n].at + NodeDrainGracePeriod <= now
      BY <2>1, <2>3, ConstantsAssumption DEF NodesOf, DueAt, GracePeriodOf
    <3>2. fdSeen.observed[n] # None /\ fdSeen.observed[n].id = nodeSeen[n].applied
      BY <2>1, <2>3 DEF Unobserved
    <3>3. PICK r \in recent[n] : r.at <= fdSeen.observed[n].at
      BY <3>1, <3>2 DEF SinceInv, Observations
    <3>4. r.at \in Nat /\ now \in Nat /\ fdSeen.observed[n].at \in Nat
      <4>1. fdSeen.observed \in Observations /\ recent[n] \subseteq Request
        BY <3>1 DEF Observations, TypeOK
      <4> QED BY <3>1, <3>2, <4>1, ObservedOK, BoundsOK DEF Request
    <3>5. r.at + NodeDrainGracePeriod <= now
      BY <3>1, <3>3, <3>4, ConstantsAssumption
    <3> QED BY <3>1, <3>5 DEF DueOn
  <2> QED BY <1>1, <1>3, <2>2, <2>3 DEF DueInv, DueOn
<1> QED BY <1>2, <1>3 DEF Begin

\* The rest of the reconcile keeps to them.
LEMMA DueStep ==
  ASSUME TypeOK, RestInv, SinceInv, DueInv, [Next]_vars PROVE DueInv'
<1>1. CASE Return
  BY <1>1 DEF Return, DueInv
<1>2. ASSUME pc \in {"drain", "force"}, pc' \in {"drain", "force"}, UNCHANGED <<copy, out>>,
             todo' # {} \/ victims' # {} => copy.exists,
             \A p \in victims' \ replaced' :
               p \in Pods /\ pod'[p].node \in out /\ Candidate(p)
      PROVE  DueInv'
  <2>1. \A n \in out : UNCHANGED now /\ recent[n] \subseteq recent'[n]
    BY <1>2, DueKept DEF TypeOK
  <2>2. copy.exists => out \subseteq Selected /\ \A n \in out : DueOn(n)'
    BY <1>2, <2>1 DEF DueInv, DueOn
  <2>3. \A p \in victims' \ replaced' : pod'[p].node \in out /\ Candidate(p)'
    BY <1>2, CandidateKept
  <2> QED BY <1>2, <2>2, <2>3 DEF DueInv
<1>3. ASSUME pc' = pc, UNCHANGED <<copy, out>>, todo' \subseteq todo, victims' \subseteq victims,
             replaced \subseteq replaced', UNCHANGED pod
      PROVE  DueInv'
  <2>1. CASE pc \in {"drain", "force"}
    BY <1>2, <1>3, <2>1 DEF DueInv, TypeOK
  <2>2. CASE pc \notin {"drain", "force"}
    BY <1>3, <2>2 DEF DueInv
  <2> QED BY <2>1, <2>2
<1>4. CASE Begin
  BY <1>4, BeginDue
<1>5. CASE Observe \/ Finish \/ Restart
  BY <1>1, <1>5 DEF Observe, Finish, Restart
<1>6. CASE StartForceDelete
  <2>1. /\ victims = {} /\ pc = "drain" /\ pc' = "force" /\ UNCHANGED <<copy, out, victims>>
        /\ todo' # {} => copy.exists
    BY <1>6 DEF StartForceDelete, ForceGracePeriodOf
  <2> QED BY <1>2, <2>1
<1>7. CASE CallFails
  BY <1>1, <1>3, <1>7 DEF CallFails, objects
<1>8. ASSUME NEW n \in Nodes, ListPods(n) PROVE DueInv'
  <2>1. n \in todo /\ pc \in {"drain", "force"} /\ UNCHANGED <<pc, copy, out, pod>>
    BY <1>8 DEF ListPods, objects
  <2>2. \A p \in victims' : p \in Pods /\ pod[p].node = n /\ Candidate(p)
    BY <1>8 DEF ListPods, PodsOn
  <2>3. copy.exists /\ n \in out
    BY <2>1 DEF DueInv, TypeOK
  <2> QED BY <1>2, <2>1, <2>2, <2>3
<1>9. ASSUME NEW p \in Pods, DeletePod(p) \/ PodChanges(p) \/ Recreate(p) PROVE DueInv'
  <2>1. /\ victims' \subseteq victims /\ replaced \subseteq replaced'
        /\ UNCHANGED <<pc, copy, out, todo>>
    BY <1>9 DEF DeletePod, PodChanges, Recreate, worker
  <2>2. ASSUME NEW q \in victims' \ replaced' PROVE pod'[q].node = pod[q].node /\ q \in Pods
    <3>0. pod \in [Pods -> Pod] /\ q \in Pods
      BY <2>1 DEF TypeOK
    <3>1. CASE DeletePod(p) \/ PodChanges(p)
      BY <3>0, <3>1 DEF DeletePod, PodChanges, Pod
    <3>2. CASE Recreate(p)
      BY <3>0, <3>2 DEF Recreate
    <3> QED BY <1>9, <3>0, <3>1, <3>2
  <2>3. CASE pc \in {"drain", "force"}
    BY <1>2, <2>1, <2>2, <2>3 DEF DueInv
  <2>4. CASE pc \notin {"drain", "force"}
    BY <2>1, <2>4 DEF DueInv
  <2> QED BY <2>3, <2>4
<1>10. CASE \/ Deliver \/ Wake \/ Orphan \/ Delete \/ Tick
            \/ (\E n \in Nodes : StartDrain(n) \/ EndDrain(n)) \/ UNCHANGED vars
  BY <1>3, <1>10 DEF Deliver, Wake, Orphan, Delete, Tick, StartDrain, EndDrain,
                     objects, worker, vars
<1> QED BY <1>4, <1>5, <1>6, <1>7, <1>8, <1>9, <1>10 DEF Next, Reconcile, Environment

-----------------------------------------------------------------------------
(* No pod outlives its due instant.                                        *)

\* The maximal interval is set, and a drain without a grace period, whose pods
\* the drainer alone evicts, leaves them at least that long to terminate.
Regular ==
  /\ MaxReconcileInterval > 0
  /\ NodeDrainGracePeriod = 0 /\ PodForceDeleteGracePeriod # 0 =>
       MaxReconcileInterval <= PodForceDeleteGracePeriod

\* Whatever has changed has started a reconcile that reads it, or will.
Pending == queued \/ failed \/ pc = "observe" \/ news \cap ({"fd"} \cup Selected) # {}
Settled == fd.exists /\ ~Pending

\* A pod that could not be judged is not missed before the maximal interval ends.
Allowance(p) == MaxReconcileInterval * excuses[p]
Excused(p) == overdue[p] + MaxReconcileInterval <= Allowance(p)

Draining == {n \in Selected : Drains(node[n])}
NodeDueAt(n) == fd.observed[n].at + NodeDrainGracePeriod
KillAt(p) == pod[p].start + PodForceDeleteGracePeriod

\* The reconcile need not come back to a pod before the maximal interval ends,
\* or has asked for the instant in which it has to.
Handled(p) ==
  \/ Excused(p)
  \/ pod[p].phase = "running" /\ NodeDrainGracePeriod = 0
  \/ /\ pod[p].phase = "terminating"
     /\ \/ PodForceDeleteGracePeriod = 0
        \/ KillAt(p) \in later \/ now + MaxReconcileInterval <= KillAt(p)
  \/ pod[p].phase \in {"killed", "gone"}

\* A pod that the reconcile has still to visit, or has dealt with.
Ahead(p) == pod[p].node \in todo \/ p \in victims
Covered(p) ==
  \/ pc = "drain" /\ (Ahead(p) \/ pod[p].phase # "running" \/ NodeDrainGracePeriod = 0)
  \/ pc = "force" /\ Ahead(p) /\ pod[p].phase = "terminating"
  \/ Handled(p)

\* The reconcile has read what there is; it comes back for the nodes that are
\* not due, and has dealt with the pods that it has passed.
WorkInv ==
  Settled /\ pc \in {"drain", "force"} =>
    /\ copy = fd /\ draining = Draining
    /\ out = {n \in Draining : NodeDueAt(n) <= now}
    /\ {NodeDueAt(n) : n \in Draining \ out} \subseteq later
    /\ \A p \in Pods : pod[p].node \in out /\ Candidate(p) => Covered(p)

\* Nothing is missed if a pod is looked at in instant w.
Spared(p, w) ==
  \/ w <= NodeDueAt(pod[p].node)
  \/ overdue[p] + w <= Allowance(p) + now
  \/ pod[p].phase = "running" /\ NodeDrainGracePeriod = 0
  \/ /\ pod[p].phase = "terminating"
     /\ PodForceDeleteGracePeriod = 0 \/ w <= KillAt(p)
  \/ pod[p].phase \in {"killed", "gone"}

\* A controller that rests during a drain is woken in time for every pod.
WakeInv ==
  Settled /\ pc = "idle" =>
    \A n \in Draining : \E w \in wake :
      /\ w <= now + MaxReconcileInterval
      /\ \A p \in Pods : pod[p].node = n /\ Candidate(p) => Spared(p, w)

\* An excuse buys a pod another maximal interval.
LEMMA AllowanceGrows ==
  ASSUME NEW e \in Nat
  PROVE  /\ MaxReconcileInterval * e \in Nat
         /\ MaxReconcileInterval * (e + 1) = MaxReconcileInterval * e + MaxReconcileInterval
  BY ConstantsAssumption

\* Excuses add up, and only the clock makes a pod overdue.
LEMMA ExcusesKept ==
  ASSUME TypeOK, [Next]_vars, ~Tick, NEW p \in Pods
  PROVE  /\ overdue'[p] = overdue[p] /\ overdue[p] \in Nat
         /\ Allowance(p) \in Nat /\ Allowance(p)' \in Nat
         /\ Allowance(p) <= Allowance(p)'
         /\ ~Candidate(p) /\ Candidate(p)' => Allowance(p)' = Allowance(p) + MaxReconcileInterval
<1>0. excuses[p] \in Nat /\ overdue[p] \in Nat /\ excuses \in [Pods -> Nat]
  BY DEF TypeOK
<1>1. UNCHANGED overdue
  BY DEF Next, Reconcile, Environment, Begin, Observe, StartForceDelete, Finish, ListPods,
         DeletePod, CallFails, Deliver, Wake, Restart, Orphan, Delete, StartDrain,
         EndDrain, PodChanges, Recreate, history, vars
<1>2. \/ UNCHANGED <<excuses, daemonSet>> \/ Orphan \/ \E n \in Nodes : ListPods(n)
  BY DEF Next, Reconcile, Environment, Begin, Observe, StartForceDelete, Finish,
         DeletePod, CallFails, Deliver, Wake, Restart, Delete, StartDrain,
         EndDrain, PodChanges, Recreate, objects, history, vars
<1>3. CASE UNCHANGED <<excuses, daemonSet>>
  <2>1. Allowance(p)' = Allowance(p) /\ (Candidate(p)' <=> Candidate(p))
    BY <1>3 DEF Allowance, Candidate
  <2>2. Allowance(p) \in Nat
    BY <1>0, AllowanceGrows DEF Allowance
  <2> QED BY <1>0, <1>1, <2>1, <2>2
<1>4. CASE Orphan
  <2>1. excuses'[p] = IF Kind[p] = "daemon" THEN excuses[p] + 1 ELSE excuses[p]
    BY <1>0, <1>4 DEF Orphan
  <2>2. Kind[p] # "daemon" => (Candidate(p)' <=> Candidate(p))
    BY DEF Candidate
  <2>3. CASE Kind[p] = "daemon"
    <3>1. Allowance(p)' = MaxReconcileInterval * (excuses[p] + 1)
      BY <2>1, <2>3 DEF Allowance
    <3>2. Allowance(p) \in Nat /\ Allowance(p)' = Allowance(p) + MaxReconcileInterval
      BY <1>0, <3>1, AllowanceGrows DEF Allowance
    <3> QED BY <1>0, <1>1, <3>2, ConstantsAssumption
  <2>4. CASE Kind[p] # "daemon"
    <3>1. Allowance(p)' = Allowance(p) /\ Allowance(p) \in Nat
      BY <1>0, <2>1, <2>4, AllowanceGrows DEF Allowance
    <3> QED BY <1>0, <1>1, <2>2, <2>4, <3>1
  <2> QED BY <2>3, <2>4
<1>5. ASSUME NEW n \in Nodes, ListPods(n)
      PROVE  /\ excuses'[p] = excuses[p] \/ excuses'[p] = excuses[p] + 1
             /\ UNCHANGED daemonSet
  BY <1>5 DEF ListPods, objects
<1>6. CASE \E n \in Nodes : ListPods(n)
  <2>1. Candidate(p)' <=> Candidate(p)
    BY <1>5, <1>6 DEF Candidate
  <2>2. CASE excuses'[p] = excuses[p]
    <3>1. Allowance(p)' = Allowance(p) /\ Allowance(p) \in Nat
      BY <1>0, <2>2, AllowanceGrows DEF Allowance
    <3> QED BY <1>0, <1>1, <2>1, <3>1
  <2>3. CASE excuses'[p] = excuses[p] + 1
    <3>1. Allowance(p)' = MaxReconcileInterval * (excuses[p] + 1)
      BY <2>3 DEF Allowance
    <3>2. Allowance(p) \in Nat /\ Allowance(p)' = Allowance(p) + MaxReconcileInterval
      BY <1>0, <3>1, AllowanceGrows DEF Allowance
    <3> QED BY <1>0, <1>1, <2>1, <3>2, ConstantsAssumption
  <2> QED BY <1>5, <1>6, <2>2, <2>3
<1> QED BY <1>2, <1>3, <1>4, <1>6

\* What a step may do to a pod: none is put on a node that drains, and none moves.
LEMMA PodStep ==
  ASSUME TypeOK, [Next]_vars, NEW p \in Pods
  PROVE  \/ pod'[p] = pod[p]
         \/ /\ pod'[p].node = pod[p].node /\ pod[p].phase = "running"
            /\ pod'[p].phase = "terminating" /\ pod'[p].start = now
         \/ pod'[p].node = pod[p].node /\ pod'[p].phase \in {"killed", "gone"}
         \/ pod[p].phase = "gone" /\ ~Drains(node[pod'[p].node]) /\ UNCHANGED node
<1>0. pod \in [Pods -> Pod] /\ pod[p] \in Pod
  BY DEF TypeOK
<1>1. UNCHANGED pod \/ \E q \in Pods : DeletePod(q) \/ PodChanges(q) \/ Recreate(q)
  BY DEF Next, Reconcile, Environment, Begin, Observe, StartForceDelete, Finish, ListPods,
         CallFails, Deliver, Wake, Restart, Orphan, Delete, Tick, StartDrain,
         EndDrain, objects, vars
<1>2. ASSUME NEW q \in Pods, DeletePod(q) \/ PodChanges(q) \/ Recreate(q), q # p
      PROVE  pod'[p] = pod[p]
  BY <1>0, <1>2 DEF DeletePod, PodChanges, Recreate
<1>3. CASE DeletePod(p)
  BY <1>0, <1>3 DEF DeletePod, Pod
<1>4. CASE PodChanges(p)
  BY <1>0, <1>4 DEF PodChanges, Pod
<1>5. CASE Recreate(p)
  <2>1. PICK n : ~Drains(node[n]) /\ pod' = [pod EXCEPT ![p].phase = "running", ![p].node = n]
    BY <1>5 DEF Recreate
  <2>2. pod'[p].node = n
    BY <1>0, <2>1 DEF Pod
  <2> QED BY <1>5, <2>1, <2>2 DEF Recreate
<1> QED BY <1>1, <1>2, <1>3, <1>4, <1>5

\* A pod on a node that drains is not new there.
LEMMA PodStays ==
  ASSUME TypeOK, [Next]_vars, NEW p \in Pods, Drains(node[pod'[p].node])
  PROVE  pod'[p].node = pod[p].node
  BY PodStep

\* A step after which nothing is pending has found nothing pending, unless it
\* is the one that reads everything.
LEMMA SettledStep ==
  ASSUME TypeOK, RestInv, CachesInv, [Next]_vars, ~Begin, Settled'
  PROVE  /\ Settled /\ UNCHANGED fd /\ Draining' = Draining
         /\ \A n \in Selected : node'[n] = node[n]
         /\ ~Observe /\ ~Wake /\ ~Restart /\ ~CallFails /\ ~Delete
<1> USE DEF objects, caches, queue, worker
<1>0. fd'.exists /\ ~queued' /\ ~failed' /\ pc' # "observe" /\ news' \cap ({"fd"} \cup Selected) = {}
  BY DEF Settled, Pending
<1>1. ~Observe
  BY <1>0 DEF Observe, CachesInv
<1>2. ~Wake /\ ~Restart /\ ~CallFails
  BY <1>0 DEF Wake, Restart, CallFails, queue
<1>3. ~Delete
  BY <1>0, FreshOK DEF Delete
<1>4. ASSUME UNCHANGED <<fd, node>>, news' = news, queued' = queued, pc # "observe", failed' = failed
      PROVE  Settled /\ UNCHANGED fd /\ Draining' = Draining /\ \A n \in Selected : node'[n] = node[n]
  BY <1>0, <1>4 DEF Settled, Pending, Draining
<1>5. CASE StartForceDelete \/ Orphan \/ Tick \/ UNCHANGED vars
  BY <1>0, <1>1, <1>2, <1>3, <1>4, <1>5 DEF StartForceDelete, Orphan, Tick, vars
<1>6. CASE Finish
  BY <1>0, <1>1, <1>2, <1>3, <1>6 DEF Finish, Settled, Pending, Draining
<1>7. ASSUME NEW n \in Nodes, ListPods(n)
      PROVE  UNCHANGED <<fd, node>> /\ news' = news /\ queued' = queued /\ pc # "observe" /\ failed' = failed
  BY <1>7 DEF ListPods
<1>8. ASSUME NEW p \in Pods, DeletePod(p) \/ PodChanges(p) \/ Recreate(p)
      PROVE  UNCHANGED <<fd, node>> /\ news' = news /\ queued' = queued /\ pc # "observe" /\ failed' = failed
  <2>1. failed \in BOOLEAN
    BY DEF TypeOK
  <2> QED BY <1>0, <1>8, <2>1 DEF DeletePod, PodChanges, Recreate
<1>9. CASE Deliver
  <2>1. PICK o \in news :
          /\ news' = news \ {o}
          /\ queued' = (queued \/ o = "fd" \/ (o \in Selected /\ fdSeen.exists))
    BY <1>9 DEF Deliver
  <2>2. UNCHANGED <<fd, node, pc, failed>> /\ fdSeen.exists
    BY <1>0, <1>9 DEF Deliver, CachesInv
  <2>3. news \cap ({"fd"} \cup Selected) = {} /\ ~queued
    BY <1>0, <2>1, <2>2
  <2> QED BY <1>0, <1>1, <1>2, <1>3, <2>2, <2>3 DEF Settled, Pending, Draining
<1>10. ASSUME NEW m \in Nodes, StartDrain(m) \/ EndDrain(m)
       PROVE  Settled /\ UNCHANGED fd /\ Draining' = Draining /\ \A n \in Selected : node'[n] = node[n]
  <2>1. news' = news \cup {m} /\ UNCHANGED <<fd, queued, pc, failed>>
    BY <1>10 DEF StartDrain, EndDrain
  <2>2. m \notin Selected
    BY <1>0, <2>1
  <2>3. \A n \in Selected : node'[n] = node[n]
    BY <1>10, <2>2, ConstantsAssumption DEF StartDrain, EndDrain, TypeOK
  <2> QED BY <1>0, <2>1, <2>3 DEF Settled, Pending, Draining
<1> QED BY <1>1, <1>2, <1>3, <1>4, <1>5, <1>6, <1>7, <1>8, <1>9, <1>10
        DEF Next, Reconcile, Environment

\* The nodes and pods have their types, and a drain that is settled is recorded.
LEMMA InstantsOK ==
  ASSUME TypeOK
  PROVE  /\ now \in Nat
         /\ \A p \in Pods : /\ KillAt(p) \in Nat /\ overdue[p] \in Nat /\ Allowance(p) \in Nat
                            /\ pod[p].phase \in {"running", "terminating", "killed", "gone"}
         /\ RecordInv /\ Settled => \A n \in Draining :
              fd.observed[n] # None /\ fd.observed[n].at \in Nat /\ NodeDueAt(n) \in Nat
<1>1. ASSUME NEW p \in Pods
      PROVE  /\ KillAt(p) \in Nat /\ overdue[p] \in Nat /\ Allowance(p) \in Nat
             /\ pod[p].phase \in {"running", "terminating", "killed", "gone"}
  <2>1. pod[p] \in Pod /\ overdue[p] \in Nat /\ excuses[p] \in Nat
    BY DEF TypeOK
  <2>2. pod[p].start \in Nat /\ pod[p].phase \in {"running", "terminating", "killed", "gone"}
    BY <2>1 DEF Pod
  <2>3. KillAt(p) \in Nat
    BY <2>2, ConstantsAssumption DEF KillAt
  <2>4. Allowance(p) \in Nat
    BY <2>1, AllowanceGrows DEF Allowance
  <2> QED BY <2>1, <2>2, <2>3, <2>4
<1>2. ASSUME RecordInv, Settled, NEW n \in Draining
      PROVE  fd.observed[n] # None /\ fd.observed[n].at \in Nat /\ NodeDueAt(n) \in Nat
  <2>1. fd.observed[n] # None /\ n \in Nodes
    BY <1>2, ConstantsAssumption DEF RecordInv, Recorded, Settled, Pending, Draining
  <2>2. fd.observed[n].at \in Nat
    BY <2>1 DEF TypeOK, NodeForceDrain, Observed
  <2> QED BY <2>1, <2>2, ConstantsAssumption DEF NodeDueAt
<1> QED BY <1>1, <1>2, BoundsOK

\* What the reconcile has dealt with stays so for as long as it lasts.
LEMMA HandledKept ==
  ASSUME Regular, TypeOK, [Next]_vars, ~Tick, UNCHANGED now, later \subseteq later',
         NEW p \in Pods, Drains(node'[pod'[p].node]), Handled(p)
  PROVE  Handled(p)'
<1>1. CASE Excused(p)
  BY <1>1, ExcusesKept, ConstantsAssumption DEF Excused, Handled
<1>2. CASE pod'[p] = pod[p]
  BY <1>1, <1>2 DEF Handled, KillAt
<1>3. CASE pod'[p].phase \in {"killed", "gone"}
  BY <1>3 DEF Handled
<1>4. CASE pod[p].phase = "running" /\ pod'[p].phase = "terminating" /\ pod'[p].start = now
  <2>1. pod'[p].phase = "terminating" /\ pod'[p].start = now /\ now \in Nat
    BY <1>4, BoundsOK
  <2>2. CASE NodeDrainGracePeriod = 0
    <3>1. PodForceDeleteGracePeriod = 0 \/ now + MaxReconcileInterval <= now + PodForceDeleteGracePeriod
      BY <2>1, <2>2, ConstantsAssumption DEF Regular
    <3> QED BY <2>1, <3>1 DEF Handled, KillAt
  <2> QED BY <1>1, <1>4, <2>2 DEF Handled
<1> QED BY <1>2, <1>3, <1>4, PodStep

\* The reconcile reads what there is.
LEMMA BeginWork == ASSUME TypeOK, RestInv, CachesInv, Begin PROVE WorkInv'
<1> SUFFICES ASSUME Settled', pc' \in {"drain", "force"}
             PROVE  /\ copy' = fd' /\ draining' = Draining'
                    /\ out' = {n \in Draining' : NodeDueAt(n)' <= now'}
                    /\ {NodeDueAt(n)' : n \in Draining' \ out'} \subseteq later'
                    /\ pc' = "drain" /\ (NodeDrainGracePeriod = 0 \/ todo' = out')
  BY DEF WorkInv, Covered, Ahead
<1>1. UNCHANGED <<fd, node, news, now>>
  BY DEF Begin, objects, caches
<1>2. fd.exists /\ news \cap ({"fd"} \cup Selected) = {}
  BY <1>1 DEF Settled, Pending
<1>3. fdSeen = fd /\ \A n \in Selected : nodeSeen[n] = node[n]
  BY <1>2, ConstantsAssumption DEF CachesInv
<1>4. copy' = fd /\ draining' = Draining /\ Draining' = Draining
  BY <1>1, <1>2, <1>3 DEF Begin, Draining, NodesOf
<1>5. \A n : DueAt(fdSeen, n) = NodeDueAt(n) /\ NodeDueAt(n)' = NodeDueAt(n)
  BY <1>1, <1>2, <1>3 DEF DueAt, NodeDueAt, GracePeriodOf
<1>6. /\ pc' = "drain" /\ out' = {n \in draining' : DueAt(fdSeen, n) <= now}
      /\ later' = {DueAt(fdSeen, n) : n \in draining' \ out'}
      /\ todo' = IF NodeDrainGracePeriod = 0 THEN {} ELSE out'
  BY <1>2, <1>3 DEF Begin, GracePeriodOf
<1> QED BY <1>1, <1>4, <1>5, <1>6

\* The reconcile passes over no pod that it has to come back to.
LEMMA WorkStep ==
  ASSUME Regular, TypeOK, RestInv, CachesInv, InTime, WorkInv, [Next]_vars
  PROVE  WorkInv'
<1>1. CASE Begin
  BY <1>1, BeginWork
<1>2. CASE ~Begin
  <2> SUFFICES ASSUME Settled', pc' \in {"drain", "force"}
               PROVE  /\ copy' = fd' /\ draining' = Draining'
                      /\ out' = {n \in Draining' : NodeDueAt(n)' <= now'}
                      /\ {NodeDueAt(n)' : n \in Draining' \ out'} \subseteq later'
                      /\ \A p \in Pods : pod'[p].node \in out' /\ Candidate(p)' => Covered(p)'
    BY DEF WorkInv
  <2>1. /\ Settled /\ UNCHANGED fd /\ Draining' = Draining
        /\ \A n \in Selected : node'[n] = node[n]
        /\ ~Observe /\ ~Wake /\ ~Restart /\ ~CallFails /\ ~Delete
    BY <1>2, SettledStep
  <2>2. \/ StartForceDelete \/ (\E n \in Nodes : ListPods(n)) \/ (\E p \in Pods : DeletePod(p))
        \/ UNCHANGED <<pc, copy, draining, out, todo, victims, later>>
    BY <1>2, <2>1 DEF Next, Reconcile, Environment, Finish, Return, Deliver, Orphan, Tick,
                      StartDrain, EndDrain, PodChanges, Recreate, worker, vars
  <2>3. pc \in {"drain", "force"} /\ later \subseteq later' /\ UNCHANGED <<copy, draining, out>>
    <3>1. ASSUME NEW n \in Nodes, ListPods(n)
          PROVE  pc \in {"drain", "force"} /\ later \subseteq later' /\ UNCHANGED <<copy, draining, out>>
      BY <3>1 DEF ListPods
    <3>2. ASSUME NEW p \in Pods, DeletePod(p)
          PROVE  pc \in {"drain", "force"} /\ later \subseteq later' /\ UNCHANGED <<copy, draining, out>>
      BY <3>2 DEF DeletePod
    <3> QED BY <2>2, <3>1, <3>2 DEF StartForceDelete
  <2>4. UNCHANGED now /\ ~Tick
    <3>1. ~Tick
      BY <2>3 DEF Tick, Quiet
    <3> QED BY <3>1, StillStep DEF Still, Moved, Deliver, Restart, StartDrain, EndDrain
  <2>5. \A n : NodeDueAt(n)' = NodeDueAt(n)
    BY <2>1 DEF NodeDueAt
  <2>6. /\ copy = fd /\ draining = Draining
        /\ out = {n \in Draining : NodeDueAt(n) <= now}
        /\ {NodeDueAt(n) : n \in Draining \ out} \subseteq later
    BY <2>1, <2>3 DEF WorkInv
  <2>7. ASSUME NEW p \in Pods, pod'[p].node \in out', Candidate(p)'
        PROVE  Covered(p)'
    <3>0. /\ pod'[p].node \in out /\ pod'[p].node \in Selected
          /\ Drains(node[pod'[p].node]) /\ Drains(node'[pod'[p].node])
      BY <2>1, <2>3, <2>6, <2>7 DEF Draining
    <3>1. pod'[p].node = pod[p].node /\ pod[p].node \in out
      BY <3>0, PodStays
    <3>2. CASE ~Candidate(p)
      <4>1. Allowance(p)' = Allowance(p) + MaxReconcileInterval /\ overdue'[p] = overdue[p]
            /\ overdue[p] \in Nat /\ Allowance(p) \in Nat
        BY <2>4, <2>7, <3>2, ExcusesKept
      <4>2. overdue[p] <= Allowance(p)
        BY DEF InTime, Allowance
      <4> QED BY <4>1, <4>2, ConstantsAssumption DEF Handled, Excused, Covered
    <3>3. CASE Candidate(p)
      <4>1. Covered(p)
        BY <2>1, <2>3, <3>1, <3>3 DEF WorkInv
      <4>2. Handled(p) => Handled(p)'
        BY <2>3, <2>4, <3>0, HandledKept
      <4>3. pod[p].phase # "running" => pod'[p].phase # "running"
        BY <3>0, PodStep
      <4>4. CASE UNCHANGED <<pc, copy, draining, out, todo, victims, later>>
        <5>1. pod[p].phase = "terminating" => pod'[p] = pod[p] \/ Handled(p)'
          BY <3>0, PodStep DEF Handled
        <5> QED BY <3>1, <4>1, <4>2, <4>3, <4>4, <5>1 DEF Covered, Ahead
      <4>5. CASE StartForceDelete
        <5>1. /\ todo = {} /\ victims = {} /\ UNCHANGED pod
              /\ todo' = IF PodForceDeleteGracePeriod = 0 THEN {} ELSE out
          BY <2>1, <2>6, <4>5 DEF StartForceDelete, ForceGracePeriodOf, objects, Settled
        <5>2. pod[p].phase \in {"running", "terminating", "killed", "gone"}
          BY InstantsOK
        <5>3. pc = "drain" /\ pc' = "force"
          BY <4>5 DEF StartForceDelete
        <5>4. CASE pod[p].phase = "terminating" /\ PodForceDeleteGracePeriod # 0
          BY <3>1, <5>1, <5>3, <5>4 DEF Covered, Ahead
        <5>5. CASE pod[p].phase = "running"
          BY <4>1, <4>2, <5>1, <5>3, <5>5 DEF Covered, Ahead, Handled
        <5> QED BY <5>1, <5>2, <5>4, <5>5 DEF Covered, Handled
      <4>6. ASSUME NEW n \in Nodes, ListPods(n)
            PROVE  Covered(p)'
        <5>0. victims = {} /\ todo' = todo \ {n} /\ UNCHANGED <<pc, pod, now>>
          BY <4>6 DEF ListPods, objects
        <5>1. CASE pod[p].node # n
          BY <4>1, <4>2, <5>0, <5>1 DEF Covered, Ahead
        <5>2. CASE pod[p].node = n
          <6>1. p \in PodsOn(n)
            BY <3>3, <5>2 DEF PodsOn
          <6>2. PICK ignored \in SUBSET PodsOn(n) :
                  /\ excuses' = [q \in Pods |-> IF q \in ignored THEN excuses[q] + 1 ELSE excuses[q]]
                  /\ \/ /\ pc = "drain"
                        /\ victims' = {q \in PodsOn(n) \ ignored : pod[q].phase = "running"}
                     \/ /\ pc = "force"
                        /\ victims' = {q \in PodsOn(n) \ ignored : Terminating(q) /\ Expired(q)}
                        /\ later' = later \cup ForceDeletions(PodsOn(n) \ ignored)
            BY <4>6 DEF ListPods
          <6>3. CASE p \in ignored
            <7>1. excuses'[p] = excuses[p] + 1 /\ excuses[p] \in Nat
              BY <6>2, <6>3 DEF TypeOK
            <7>2. Allowance(p)' = Allowance(p) + MaxReconcileInterval
              BY <7>1, AllowanceGrows DEF Allowance
            <7>3. overdue'[p] = overdue[p] /\ overdue[p] \in Nat /\ Allowance(p) \in Nat
              BY <2>4, ExcusesKept
            <7>4. overdue[p] <= Allowance(p)
              BY DEF InTime, Allowance
            <7>5. Excused(p)'
              BY <7>2, <7>3, <7>4, ConstantsAssumption DEF Excused
            <7> QED BY <7>5 DEF Handled, Covered
          <6>4. CASE p \notin ignored /\ pc = "drain"
            BY <5>0, <6>1, <6>2, <6>4 DEF Covered, Ahead
          <6>5. CASE p \notin ignored /\ pc = "force"
            <7>1. CASE pod[p].phase = "terminating"
              <8>1. CASE Expired(p)
                BY <5>0, <6>1, <6>2, <6>5, <7>1, <8>1 DEF Terminating, Covered, Ahead
              <8>2. CASE ~Expired(p)
                <9>1. KillAt(p) \in ForceDeletions(PodsOn(n) \ ignored)
                  BY <6>1, <6>5, <7>1, <8>2 DEF ForceDeletions, KillAt, Terminating
                <9>2. KillAt(p)' = KillAt(p) /\ pod'[p].phase = "terminating"
                  BY <5>0, <7>1 DEF KillAt
                <9> QED BY <6>2, <6>5, <9>1, <9>2 DEF Handled, Covered
              <8> QED BY <8>1, <8>2
            <7>2. CASE pod[p].phase \in {"killed", "gone"}
              BY <5>0, <7>2 DEF Handled, Covered
            <7>3. CASE pod[p].phase = "running"
              BY <4>1, <4>2, <6>5, <7>3 DEF Covered
            <7> QED BY <7>1, <7>2, <7>3, InstantsOK
          <6> QED BY <6>2, <6>3, <6>4, <6>5
        <5> QED BY <5>1, <5>2
      <4>7. ASSUME NEW q \in Pods, DeletePod(q)
            PROVE  Covered(p)'
        <5>0. victims' = victims \ {q} /\ UNCHANGED <<pc, todo>> /\ pod[p] \in Pod
          BY <4>7 DEF DeletePod, TypeOK
        <5>1. CASE p # q
          <6>1. pod'[p] = pod[p]
            BY <4>7, <5>1 DEF DeletePod, TypeOK
          <6> QED BY <4>1, <4>2, <5>0, <5>1, <6>1 DEF Covered, Ahead
        <5>2. CASE p = q
          <6>1. CASE pc = "drain"
            BY <4>7, <5>0, <5>2, <6>1 DEF DeletePod, TypeOK, Covered
          <6>2. CASE pc = "force"
            <7>1. pod[p].phase = "terminating" => pod'[p].phase = "killed"
              BY <4>7, <5>0, <5>2, <6>2 DEF DeletePod, TypeOK, Pod
            <7> QED BY <4>1, <4>2, <6>2, <7>1 DEF Covered, Handled
          <6> QED BY <2>3, <6>1, <6>2
        <5> QED BY <5>1, <5>2
      <4> QED BY <2>2, <4>4, <4>5, <4>6, <4>7
    <3> QED BY <3>2, <3>3
  <2> QED BY <2>1, <2>3, <2>4, <2>5, <2>6, <2>7
<1> QED BY <1>1, <1>2

\* The earliest of the instants asked for is kept.
LEMMA RequeueEarliest ==
  ASSUME QueueOK, NEW S \in SUBSET Nat, Requeue(S)
  PROVE  \A t \in wake \cup S : \E w \in wake' : w \in Nat /\ \A u \in wake \cup S : w <= u
<1> SUFFICES ASSUME NEW t \in wake \cup S
             PROVE  \E w \in wake' : w \in Nat /\ \A u \in wake \cup S : w <= u
  OBVIOUS
<1>1. wake \cup S \in SUBSET Nat /\ wake \cup S # {}
  BY DEF QueueOK
<1>2. \E x \in wake \cup S : \A y \in wake \cup S : x <= y
  BY <1>1, FirstInstant
<1>3. Earliest(wake \cup S) \in wake \cup S /\ \A u \in wake \cup S : Earliest(wake \cup S) <= u
  BY <1>2 DEF Earliest
<1> QED BY <1>1, <1>3 DEF Requeue

\* A reconcile without an error asks for the first instant that matters.
LEMMA FinishWake ==
  ASSUME Regular, TypeOK, RestInv, CachesInv, RecordInv, WorkInv, Finish, [Next]_vars
  PROVE  WakeInv'
<1> SUFFICES ASSUME Settled', NEW n \in Draining'
             PROVE  \E w \in wake' :
                      /\ w <= now' + MaxReconcileInterval
                      /\ \A p \in Pods : pod'[p].node = n /\ Candidate(p)' => Spared(p, w)'
  BY DEF WakeInv
<1>1. Settled /\ Draining' = Draining
  BY SettledStep DEF Begin, Finish
<1>2. /\ pc = "force" /\ todo = {} /\ victims = {}
      /\ UNCHANGED <<fd, node, pod, daemonSet, now, overdue, excuses>>
      /\ Requeue(later \cup MaxInterval)
  BY DEF Finish, objects, history, Settled, Pending
<1>3. /\ draining = Draining /\ out = {m \in Draining : NodeDueAt(m) <= now}
      /\ {NodeDueAt(m) : m \in Draining \ out} \subseteq later
      /\ \A p \in Pods : pod[p].node \in out /\ Candidate(p) => Handled(p)
  BY <1>1, <1>2 DEF WorkInv, Covered, Ahead
<1>4. now \in Nat /\ MaxReconcileInterval \in Nat /\ now + MaxReconcileInterval \in Nat
  BY BoundsOK, ConstantsAssumption
<1>5. now + MaxReconcileInterval \in MaxInterval
  BY <1>1, <1>3 DEF MaxInterval, Regular
<1>6. later \cup MaxInterval \in SUBSET Nat /\ QueueOK
  BY <1>4 DEF MaxInterval, TypeOK, QueueOK
<1>7. PICK w \in wake' : w \in Nat /\ \A u \in wake \cup (later \cup MaxInterval) : w <= u
  BY <1>2, <1>5, <1>6, RequeueEarliest
<1>8. w <= now + MaxReconcileInterval /\ \A u \in later : w <= u
  BY <1>5, <1>7
<1>9. ASSUME NEW p \in Pods, pod[p].node = n, Candidate(p) PROVE Spared(p, w)
  <2>0. /\ KillAt(p) \in Nat /\ overdue[p] \in Nat /\ Allowance(p) \in Nat
        /\ pod[p].phase \in {"running", "terminating", "killed", "gone"}
    BY InstantsOK
  <2>1. CASE n \notin out
    BY <1>1, <1>3, <1>8, <1>9, <2>1 DEF Spared
  <2>2. CASE n \in out
    <3>1. Handled(p)
      BY <1>3, <1>9, <2>2
    <3>2. CASE Excused(p)
      BY <1>4, <1>7, <1>8, <2>0, <3>2 DEF Excused, Spared
    <3>3. CASE KillAt(p) \in later \/ now + MaxReconcileInterval <= KillAt(p)
      <4>1. w <= KillAt(p)
        BY <1>4, <1>7, <1>8, <2>0, <3>3
      <4>2. pod[p].phase = "terminating" => Spared(p, w)
        BY <4>1 DEF Spared
      <4> QED BY <3>1, <3>2, <4>2 DEF Handled, Spared
    <3> QED BY <3>1, <3>2, <3>3 DEF Handled, Spared
  <2> QED BY <2>1, <2>2
<1>10. \A p : (Candidate(p)' <=> Candidate(p)) /\ (Spared(p, w)' <=> Spared(p, w))
  BY <1>2 DEF Candidate, Spared, NodeDueAt, KillAt, Allowance
<1> QED BY <1>2, <1>8, <1>9, <1>10

\* A pod that is spared until w is not late before w.
LEMMA TickInTime ==
  ASSUME TypeOK, RestInv, RecordInv, InTime, WakeInv, Tick
  PROVE  InTime' /\ WakeInv'
<1>0. /\ pc = "idle" /\ (fd.exists => Settled) /\ \A w \in wake : w > now
      /\ UNCHANGED <<fd, node, pod, daemonSet, wake, excuses, pc>> /\ now' = now + 1
      /\ news = {} /\ ~queued
  BY DEF Tick, Quiet, Settled, Pending, RestInv, objects, queue, worker
<1>1. ASSUME NEW p \in Pods PROVE overdue'[p] = IF Late(p) THEN overdue[p] + 1 ELSE 0
  BY DEF Tick
<1>2. now \in Nat /\ wake \subseteq Nat /\ MaxReconcileInterval \in Nat
  BY BoundsOK, ConstantsAssumption DEF TypeOK
<1>3. ASSUME NEW p \in Pods
      PROVE  KillAt(p) \in Nat /\ overdue[p] \in Nat /\ Allowance(p) \in Nat
  BY InstantsOK
<1>4. ASSUME NEW p \in Pods, NEW w \in wake, Settled, pod[p].node \in Draining, Spared(p, w), Late(p)
      PROVE  overdue[p] + w <= Allowance(p) + now
  <2>1. NodeDueAt(pod[p].node) \in Nat
    BY <1>4, InstantsOK
  <2>2. NodeDueAt(pod[p].node) <= now
    BY <1>4 DEF Late, NodeDueAt
  <2>3. ~(w <= NodeDueAt(pod[p].node))
    BY <1>0, <1>2, <2>1, <2>2
  <2>4. pod[p].phase = "terminating" => PodForceDeleteGracePeriod # 0 /\ ~(w <= KillAt(p))
    <3>1. pod[p].phase = "terminating" => PodForceDeleteGracePeriod # 0 /\ KillAt(p) <= now
      BY <1>4 DEF Late, KillAt
    <3> QED BY <1>0, <1>2, <1>3, <3>1
  <2>5. /\ pod[p].phase \notin {"killed", "gone"}
        /\ pod[p].phase = "running" => NodeDrainGracePeriod # 0
    BY <1>4 DEF Late
  <2> QED BY <1>4, <2>3, <2>4, <2>5 DEF Spared
<1>5. ASSUME NEW p \in Pods, Late(p)
      PROVE  Settled /\ pod[p].node \in Draining /\ Candidate(p)
  BY <1>0, <1>5 DEF Late, Draining
<1>6. ASSUME NEW p \in Pods PROVE overdue'[p] <= Allowance(p)'
  <2>0. Allowance(p)' = Allowance(p)
    BY <1>0 DEF Allowance
  <2>1. CASE Late(p)
    <3>1. PICK w \in wake : Spared(p, w)
      BY <1>0, <1>5, <2>1 DEF WakeInv
    <3>2. overdue[p] + w <= Allowance(p) + now
      BY <1>4, <1>5, <2>1, <3>1
    <3>3. w \in Nat /\ w > now
      BY <1>0, <1>2
    <3> QED BY <1>1, <1>2, <1>3, <2>0, <2>1, <3>2, <3>3
  <2>2. CASE ~Late(p)
    BY <1>1, <1>3, <2>0, <2>2
  <2> QED BY <2>1, <2>2
<1>7. InTime'
  BY <1>6 DEF InTime, Allowance
<1>8. WakeInv'
  <2> SUFFICES ASSUME Settled', NEW n \in Draining'
               PROVE  \E w \in wake' :
                        /\ w <= now' + MaxReconcileInterval
                        /\ \A p \in Pods : pod'[p].node = n /\ Candidate(p)' => Spared(p, w)'
    BY DEF WakeInv
  <2>1. Settled /\ n \in Draining
    BY <1>0 DEF Settled, Draining
  <2>2. PICK w \in wake :
          /\ w <= now + MaxReconcileInterval
          /\ \A p \in Pods : pod[p].node = n /\ Candidate(p) => Spared(p, w)
    BY <1>0, <2>1 DEF WakeInv
  <2>3. ASSUME NEW p \in Pods, pod'[p].node = n, Candidate(p)' PROVE Spared(p, w)'
    <3>1. Spared(p, w) /\ Candidate(p)
      BY <1>0, <2>2, <2>3 DEF Candidate
    <3>2. /\ NodeDueAt(pod[p].node)' = NodeDueAt(pod[p].node) /\ KillAt(p)' = KillAt(p)
          /\ Allowance(p)' = Allowance(p)
      BY <1>0 DEF NodeDueAt, KillAt, Allowance
    <3>3. CASE overdue[p] + w <= Allowance(p) + now
      <4>1. overdue'[p] + w <= Allowance(p) + now'
        BY <1>0, <1>1, <1>2, <1>3, <3>3
      <4> QED BY <3>2, <4>1 DEF Spared
    <3> QED BY <1>0, <3>1, <3>2, <3>3 DEF Spared
  <2>4. w \in wake' /\ w <= now' + MaxReconcileInterval
    BY <1>0, <1>2, <2>2
  <2> QED BY <2>3, <2>4
<1> QED BY <1>7, <1>8

\* The surroundings change nothing that the delayed request does not cover.
LEMMA WakeKept ==
  ASSUME Regular, TypeOK, RestInv, CachesInv, RecordInv, InTime, WakeInv, [Next]_vars,
         ~Begin, ~Finish, ~Tick
  PROVE  WakeInv'
<1> SUFFICES ASSUME Settled', pc' = "idle", NEW n \in Draining'
             PROVE  \E w \in wake' :
                      /\ w <= now' + MaxReconcileInterval
                      /\ \A p \in Pods : pod'[p].node = n /\ Candidate(p)' => Spared(p, w)'
  BY DEF WakeInv
<1>1. /\ Settled /\ UNCHANGED fd /\ Draining' = Draining
      /\ \A m \in Selected : node'[m] = node[m]
      /\ ~Observe /\ ~Wake /\ ~Restart /\ ~CallFails /\ ~Delete
  BY SettledStep
<1>2. pc = "idle" /\ UNCHANGED <<wake, now>>
  BY <1>1 DEF Next, Reconcile, Environment, StartForceDelete, ListPods, DeletePod, Deliver,
              Orphan, StartDrain, EndDrain, PodChanges, Recreate, queue, worker, vars
<1>3. PICK w \in wake :
        /\ w <= now + MaxReconcileInterval
        /\ \A p \in Pods : pod[p].node = n /\ Candidate(p) => Spared(p, w)
  BY <1>1, <1>2 DEF WakeInv
<1>4. now \in Nat /\ w \in Nat /\ MaxReconcileInterval \in Nat /\ PodForceDeleteGracePeriod \in Nat
  BY BoundsOK, ConstantsAssumption DEF TypeOK
<1>5. ASSUME NEW p \in Pods, pod'[p].node = n, Candidate(p)' PROVE Spared(p, w)'
  <2>0. /\ overdue'[p] = overdue[p] /\ overdue[p] \in Nat
        /\ Allowance(p) \in Nat /\ Allowance(p)' \in Nat /\ Allowance(p) <= Allowance(p)'
        /\ ~Candidate(p) => Allowance(p)' = Allowance(p) + MaxReconcileInterval
    BY <1>5, ExcusesKept
  <2>1. NodeDueAt(n)' = NodeDueAt(n) /\ Drains(node[n]) /\ pod[p].node = n
    <3>1. NodeDueAt(n)' = NodeDueAt(n) /\ Drains(node[n])
      BY <1>1 DEF NodeDueAt, Draining
    <3> QED BY <1>5, <3>1, PodStays
  <2>2. CASE ~Candidate(p)
    <3>1. overdue[p] <= Allowance(p)
      BY DEF InTime, Allowance
    <3>2. overdue'[p] + w <= Allowance(p)' + now
      BY <1>3, <1>4, <2>0, <2>2, <3>1
    <3> QED BY <1>2, <3>2 DEF Spared
  <2>3. CASE overdue[p] + w <= Allowance(p) + now
    <3>1. overdue'[p] + w <= Allowance(p)' + now
      BY <1>4, <2>0, <2>3
    <3> QED BY <1>2, <3>1 DEF Spared
  <2>4. CASE Candidate(p) /\ pod'[p] = pod[p]
    BY <1>2, <1>3, <1>5, <2>1, <2>3, <2>4 DEF Spared, KillAt
  <2>5. CASE pod'[p].phase \in {"killed", "gone"}
    BY <2>5 DEF Spared
  <2>6. CASE /\ Candidate(p) /\ pod[p].phase = "running"
             /\ pod'[p].phase = "terminating" /\ pod'[p].start = now
    <3>1. CASE NodeDrainGracePeriod = 0
      <4>1. pod'[p].phase = "terminating" /\ pod'[p].start = now
        BY <2>6
      <4>2. PodForceDeleteGracePeriod # 0 => w <= now + PodForceDeleteGracePeriod
        BY <1>3, <1>4, <3>1 DEF Regular
      <4> QED BY <4>1, <4>2 DEF Spared, KillAt
    <3>2. CASE NodeDrainGracePeriod # 0
      BY <1>3, <1>5, <2>1, <2>3, <2>6, <3>2 DEF Spared
    <3> QED BY <3>1, <3>2
  <2> QED BY <1>5, <2>1, <2>2, <2>4, <2>5, <2>6, PodStep
<1> QED BY <1>2, <1>3, <1>5

-----------------------------------------------------------------------------
(* The theorems.                                                           *)

\* What the controller rests on, and what it knows of the age of a drain.
RestingInv == TypeOK /\ RestInv /\ HistoryInv /\ CachesInv /\ RecordInv
AgeInv == OrderInv /\ SinceInv /\ DueInv

\* Nothing has happened yet.
LEMMA InitResting == ASSUME Init PROVE RestingInv /\ AgeInv
<1> USE DEF Init
<1>0. 0 \in 0..MaxTime /\ 0 \in 0..MaxDrains /\ 1 \in 0..MaxDrains /\ MaxFaults \in 0..MaxFaults
  BY ConstantsAssumption
<1>1. fd \in NodeForceDrain
  BY <1>0 DEF NodeForceDrain, Observed
<1>2. node \in [Nodes -> Node] /\ pod \in [Pods -> Pod]
  BY <1>0, ConstantsAssumption DEF Node, Pod
<1>3. TypeOK
  BY <1>0, <1>1, <1>2, FreshOK DEF TypeOK
<1>4. RestInv /\ CachesInv /\ RecordInv
  BY DEF RestInv, CachesInv, RecordInv
<1>5. \A n \in Nodes : /\ node[n].applied = 1 /\ node[n].desired = 1
                       /\ nodeSeen[n] = node[n] /\ ~Drains(node[n])
  BY DEF Drains
<1>6. \A s \in Observations, n \in Nodes : s[n] # None => s[n].id = 0
  BY DEF Observations, Fresh
<1>7. HistoryInv /\ SinceInv /\ OrderInv
  BY <1>5, <1>6 DEF HistoryInv, SinceInv, OrderInv
<1>8. DueInv
  BY DEF DueInv
<1> QED BY <1>3, <1>4, <1>7, <1>8 DEF RestingInv, AgeInv

\* The invariant of the records holds in every reachable state.
LEMMA RestingInvariant == Spec => []RestingInv
<1>1. RestingInv /\ [Next]_vars => RestingInv'
  BY TypeStep, RestStep, HistoryStep, CachesStep, RecordStep DEF RestingInv
<1> QED BY <1>1, InitResting, PTL DEF Spec

\* Every variable keeps its type; the delayed requests of the work queue are
\* never more than one, however the requeue times of a reconcile combine.
THEOREM TypesKept == Spec => []TypeOK
<1>1. RestingInv => TypeOK
  BY DEF RestingInv
<1> QED BY <1>1, RestingInvariant, PTL

\* When the controller rests, every drain of a selected node is recorded in
\* lastObservedNodeDrain, for any number of nodes that drain at once and
\* although setLastObservedNodeDrain records one drain per reconcile.
THEOREM DrainsAreRecorded == Spec => []EveryDrainRecorded
<1>1. RestingInv => EveryDrainRecorded
  BY DEF RestingInv, RecordInv, Recorded, EveryDrainRecorded, Quiet
<1> QED BY <1>1, RestingInvariant, PTL

\* Pods are deleted or killed only on selected nodes whose drain was asked for
\* at least .spec.nodeDrainGracePeriod ago, and only if no daemon set owns them:
\* for any number of nodes, pods, drains and drains called off and asked for
\* again, and however late the caches are.  Only a pod that has taken the name
\* of one that was listed may be deleted elsewhere, as Delete goes by the name.
THEOREM DeletionsAreDue == Spec => DrainsOnlyDue
<1> DEFINE OnlyDue ==
      \A p \in Pods : Deletes(p) /\ p \notin replaced =>
        pod[p].node \in Selected /\ Candidate(p) /\ DueOn(pod[p].node)
<1>1. RestingInv /\ AgeInv /\ [Next]_vars => AgeInv'
  BY OrderStep, SinceStep, DueStep DEF RestingInv, AgeInv
<1>2. RestingInv /\ AgeInv /\ [Next]_vars => OnlyDue
  <2> SUFFICES ASSUME RestingInv, AgeInv, [Next]_vars, NEW p \in Pods,
                      Deletes(p), p \notin replaced
               PROVE  pod[p].node \in Selected /\ Candidate(p) /\ DueOn(pod[p].node)
    OBVIOUS
  <2>0. victims' # victims /\ pod'[p] # pod[p] /\ pc \in {"drain", "force"}
    BY DEF Deletes
  <2>1. \E q \in Pods : DeletePod(q)
    BY <2>0 DEF Next, Reconcile, Environment, Begin, Observe, StartForceDelete, Finish,
                ListPods, CallFails, Deliver, Wake, Restart, Orphan, Delete, Tick,
                StartDrain, EndDrain, PodChanges, Recreate, objects, worker, vars
  <2>2. p \in victims \ replaced
    BY <2>0, <2>1 DEF DeletePod, RestingInv, TypeOK
  <2> QED BY <2>0, <2>2 DEF AgeInv, DueInv
<1>3. Init => AgeInv
  BY InitResting
<1>4. OnlyDue => [OnlyDue]_vars
  OBVIOUS
<1> QED BY <1>1, <1>2, <1>3, <1>4, RestingInvariant, PTL DEF Spec, DrainsOnlyDue

\* No pod outlives the instant in which it is due for deletion or for killing,
\* save for the excuses that the code grants, for any number of nodes, pods and
\* drains, although pods are not watched and drains, evictions, terminations,
\* failed calls and restarts come between any two calls of the reconcile.
THEOREM PodsAreInTime == ASSUME Regular PROVE Spec => []InTime
<1> DEFINE TimelyInv == InTime /\ WorkInv /\ WakeInv
<1>1. Init => TimelyInv
  <2> SUFFICES ASSUME Init PROVE TimelyInv
    OBVIOUS
  <2>1. queued /\ pc = "idle"
    BY DEF Init
  <2>2. ASSUME NEW p \in Pods PROVE overdue[p] <= MaxReconcileInterval * excuses[p]
    <3>1. overdue[p] = 0 /\ excuses[p] = 0
      BY DEF Init
    <3> QED BY <3>1, AllowanceGrows, ConstantsAssumption
  <2> QED BY <2>1, <2>2 DEF InTime, WorkInv, WakeInv, Settled, Pending
<1>2. RestingInv /\ TimelyInv /\ [Next]_vars => TimelyInv'
  <2> SUFFICES ASSUME RestingInv, TimelyInv, [Next]_vars PROVE TimelyInv'
    OBVIOUS
  <2>0. TypeOK /\ RestInv /\ CachesInv /\ RecordInv
    BY DEF RestingInv
  <2>1. WorkInv'
    BY <2>0, WorkStep
  <2>2. CASE Tick
    BY <2>0, <2>1, <2>2, TickInTime
  <2>3. CASE ~Tick
    <3>1. InTime'
      <4>1. ASSUME NEW p \in Pods PROVE overdue'[p] <= Allowance(p)'
        <5>1. overdue[p] <= Allowance(p)
          BY DEF InTime, Allowance
        <5> QED BY <2>0, <2>3, <5>1, ExcusesKept
      <4> QED BY <4>1 DEF InTime, Allowance
    <3>2. CASE Begin
      <4>1. pc' # "idle"
        BY <3>2 DEF Begin
      <4> QED BY <2>1, <3>1, <4>1 DEF WakeInv
    <3>3. CASE Finish
      BY <2>0, <2>1, <3>1, <3>3, FinishWake
    <3>4. CASE ~Begin /\ ~Finish
      BY <2>0, <2>1, <2>3, <3>1, <3>4, WakeKept
    <3> QED BY <3>2, <3>3, <3>4
  <2> QED BY <2>2, <2>3
<1> QED BY <1>1, <1>2, RestingInvariant, PTL DEF Spec
==============================================================================
