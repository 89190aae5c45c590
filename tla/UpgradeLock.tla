----------------------------- MODULE UpgradeLock -----------------------------
(***************************************************************************)
(* What the lock annotation on the ClusterVersion promises: at most one    *)
(* UpgradeJob owns the cluster version, only its owner changes the desired *)
(* version, and an owner gives it up only when its outcome is decided.     *)
(*                                                                         *)
(* UpgradeJob implements this specification (Locking there), and           *)
(* ClusterVersion shows that the overlay controller, which writes the same *)
(* object, does not get in its way.                                        *)
(***************************************************************************)
CONSTANTS
  Jobs,             \* the UpgradeJobs
  None,             \* no job, no version
  DesiredVersion    \* [Jobs -> versions or None]

VARIABLES
  holder,           \* the job named by the lock annotation
  desired,          \* the desired version of the cluster
  finished          \* the jobs whose outcome is decided

vars == <<holder, desired, finished>>

Init == holder = None /\ desired = None /\ finished = {}

Acquire(j) ==
  /\ holder = None /\ j \notin finished
  /\ holder' = j
  /\ UNCHANGED <<desired, finished>>

Upgrade(j) ==
  /\ holder = j /\ DesiredVersion[j] # None
  /\ desired' = DesiredVersion[j]
  /\ UNCHANGED <<holder, finished>>

Finish(j) ==
  /\ j \notin finished
  /\ finished' = finished \cup {j}
  /\ UNCHANGED <<holder, desired>>

Release(j) ==
  /\ holder = j /\ j \in finished
  /\ holder' = None
  /\ UNCHANGED <<desired, finished>>

Next == \E j \in Jobs : Acquire(j) \/ Upgrade(j) \/ Finish(j) \/ Release(j)

Spec == Init /\ [][Next]_vars
=============================================================================
