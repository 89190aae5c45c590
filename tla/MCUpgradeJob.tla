---------------------------- MODULE MCUpgradeJob ----------------------------
(* Values for the constants of UpgradeJob that a configuration file cannot *)
(* write down.                                                             *)
EXTENDS UpgradeJob, TLC

CONSTANTS j1, j2, p1, p2, v1, v2

\* Job j1 is due at 0, job j2 one instant later.
MCStartAfter == [j \in Jobs |-> IF j = j1 THEN 0 ELSE 1]
MCStartBefore == [j \in Jobs |-> MCStartAfter[j] + 1]
\* Job j2 is due when j1 has timed out.
MCStartLater == [j \in Jobs |-> IF j = j1 THEN 0 ELSE 2]
MCStartLaterBefore == [j \in Jobs |-> MCStartLater[j] + 1]
MCDesired == [j \in Jobs |-> IF j = j1 THEN v1 ELSE v2]
MCNoVersion == [j \in Jobs |-> IF j = j1 THEN v1 ELSE None]
MCCheckFirst == [j \in Jobs |-> j = j1]
MCHealthTimeout == [c \in Checks |-> 1]
\* A suspension window covers the last instant of j1's start window.
MCSuspended == [j \in Jobs |-> IF j = j1 THEN {1} ELSE {}]
MCNeverSuspended == [j \in Jobs |-> {}]
\* Pool p1 is delayed by one instant and expires with the second.
MCDelayMin == [p \in Pools |-> IF p = p1 THEN 1 ELSE 0]
MCDelayMax == [p \in Pools |-> IF p = p1 THEN 2 ELSE 0]
MCDelayLong == [p \in Pools |-> 2]
MCDelayBoth == [p \in Pools |-> 1]
MCNoDelay == [p \in Pools |-> 0]
=============================================================================
