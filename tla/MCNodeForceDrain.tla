-------------------------- MODULE MCNodeForceDrain --------------------------
(* Small instances of NodeForceDrain. *)
EXTENDS NodeForceDrain, TLC

CONSTANTS n1, n2, p1, p2

\* A plain pod on one node, a pod of a daemon set on the other.
MCNodeOf == (p1 :> n1) @@ (p2 :> n2)
MCKind == (p1 :> "plain") @@ (p2 :> "daemon")
=============================================================================
