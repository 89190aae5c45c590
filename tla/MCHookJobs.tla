----------------------------- MODULE MCHookJobs -----------------------------
(* Small instances of HookJobs. *)
EXTENDS HookJobs

CONSTANTS j1, j2, h1, h2

\* A hook for both UpgradeJobs, and one for the first.
MCRuns == {<<j1, h1>>, <<j2, h1>>, <<j1, h2>>}

\* The first hook for all UpgradeJobs.
MCOneHook == UpgradeJobs \X {h1}
=============================================================================
