-------------------------- MODULE MCClusterVersion --------------------------
(* Values for the constants of ClusterVersion.                             *)
EXTENDS ClusterVersion

CONSTANTS j1, v1, a, b

MCDesired == [j \in Jobs |-> v1]
S(x, y) == [f \in Fields |-> IF f = "channel" THEN x ELSE y]
\* Overlays from 1 and from 2, of which the second sets less than the first,
\* and a template that sets what its overlay leaves alone.
Two == [template |-> S(a, None),
        overlays |-> [t \in {1, 2} |-> IF t = 1 THEN S(b, b) ELSE S(None, a)]]
One == [template |-> S(None, b), overlays |-> [t \in {2} |-> S(b, None)]]
Plain == [template |-> S(a, b), overlays |-> <<>>]
MCConfigs == {Two, One, Plain}
=============================================================================
