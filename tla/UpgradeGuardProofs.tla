------------------------- MODULE UpgradeGuardProofs -------------------------
(***************************************************************************)
(* What an upgrade and an outcome of a job mean, for any number of jobs,   *)
(* pools and versions: the desired version is changed for a job that has   *)
(* passed everything that comes before, success is an upgrade that is      *)
(* done, and a skipped job has touched nothing.                            *)
(***************************************************************************)
EXTENDS UpgradeLockProofs

USE DEF Checks, Tri

\* What is recorded in a copy is recorded at the server.
Past(u, w) ==
  /\ u.started => w.started
  /\ u.check["pre"] = "true" => w.check["pre"] = "true"
PastInv ==
  /\ \A j \in Jobs : Past(ujSeen[j], uj[j])
  /\ pc # "idle" => Past(luj, uj[job])
  /\ cvSeen.done \subseteq cv.done /\ ver.done \subseteq cv.done

\* A reconcile gets to a label with the conditions that are tested before it.
Upgraded(j, u) == u.completed = "true" => DesiredVersion[j] \in cv.done
ReachedInv ==
  /\ pc \in {"desired", "postHealth", "complete"} => luj.check["pre"] = "true"
  /\ pc \in {"postHealth", "complete"} /\ DesiredVersion[job] # None =>
       luj.completed = "true"
  /\ pc = "complete" => luj.check["post"] = "true"
  /\ \A j \in Jobs : Upgraded(j, uj[j]) /\ Upgraded(j, ujSeen[j])
  /\ pc # "idle" => Upgraded(job, luj)

\* A job that has the lock, is about to ask for it or owns a pool has started
\* and passed its hooks.
StartHooksPassed(j) == PassedHooks(j, "Create") /\ PassedHooks(j, "Start")
TouchInv ==
  /\ \A j \in Jobs : cv.lock = j => uj[j].started /\ StartHooksPassed(j)
  /\ \A j \in Jobs, p \in Pools : mcp[p].job = j => uj[j].started /\ StartHooksPassed(j)
  /\ pc \in {"lock"} \cup Locked => uj[job].started /\ StartHooksPassed(job)

\* An upgrade that is in progress is the one the cluster version wants.
WantedInv ==
  /\ \A j \in Jobs : cv.lock = j /\ uj[j].completed # "nil" =>
       cv.desired = DesiredVersion[j]
  /\ \A j \in Jobs : uj[j].completed # "nil" => cv.lock = j \/ Finished(uj[j])
  /\ \A v \in {cvSeen, ver} : \A j \in Jobs :
       cv.lock = j /\ v.lock = j /\ v.desired = DesiredVersion[j] =>
         cv.desired = DesiredVersion[j]
  /\ pc \in Locked => ver.lock = job

\* What an outcome says.
OutcomeInv ==
  /\ \A j \in Jobs :
       /\ uj[j].succ = "Skipped" => ~uj[j].started
       /\ uj[j].succ = "HookRequestedSkip" =>
            \E e \in {"Create", "Start"} :
              <<e, None>> \in HookRuns /\ hook[j][<<e, None>>] = "skip"
       /\ uj[j].succ = "Succeeded" =>
            /\ uj[j].check = [c \in Checks |-> "true"]
            /\ DesiredVersion[j] # None => uj[j].completed = "true"
       /\ uj[j].fail = "Expired" => ~uj[j].started
       /\ uj[j].fail = "TimedOut" => now > StartAfter[j] + UpgradeTimeout
       /\ uj[j].fail = "PreHealthCheckFailed" => uj[j].check["pre"] # "true"
       /\ uj[j].fail = "PostHealthCheckFailed" /\ DesiredVersion[j] # None =>
            uj[j].completed = "true"
  /\ pc \in {"lock"} \cup Locked => uj[job].fail # "TimedOut"

\* A job that is seen as finished has that outcome, and the label tells which.
EndedInv ==
  /\ \A j \in Jobs : Finished(ujSeen[j]) => ujSeen[j].succ = uj[j].succ
  /\ pc \in Finishing => luj.succ = uj[job].succ
  /\ pc \in {"succeeded", "cleanup"} => luj.succ # ""
  /\ pc \in {"failed", "pauseOnFailure"} => luj.succ = ""

-----------------------------------------------------------------------------
(* What a step may write into a job.                                       *)

\* Nothing that matters here: at most that it is deleted, or of its pools.
Same(u, w) == /\ w.started = u.started /\ w.check = u.check /\ w.completed = u.completed
              /\ w.succ = u.succ /\ w.fail = u.fail
\* It goes on:
Progress(u, w) ==
  /\ w.succ = u.succ /\ w.fail = u.fail
  /\ \/ pc = "pending" /\ w.started /\ w.check = u.check /\ w.completed = u.completed
     \/ /\ w.started = u.started /\ w.completed = u.completed
        /\ \/ pc = "preHealth" /\ u.check["pre"] # "true"
           \/ pc = "postHealth" /\ w.check["pre"] = u.check["pre"]
     \/ /\ Upgrading
        /\ w.started = u.started /\ w.check = u.check
        /\ \/ w.completed = "false"
           \/ w.completed = "true" /\ IsVersionUpgradeCompleted(ver)
\* it comes to an end.
Succeeds(u, w) ==
  /\ w.fail = u.fail
  /\ w.started = u.started /\ w.check = u.check /\ w.completed = u.completed
  /\ \/ w.succ = "Skipped" /\ ~u.started
     \/ /\ w.succ = "HookRequestedSkip"
        /\ \E e \in {"Create", "Start"} :
             <<e, None>> \in HookRuns /\ hook[job][<<e, None>>] = "skip"
     \/ w.succ = "Succeeded" /\ pc = "complete"
Fails(u, w) ==
  /\ w.succ = u.succ
  /\ w.started = u.started /\ w.check = u.check /\ w.completed = u.completed
  /\ \/ w.fail = "Expired" /\ ~u.started
     \/ w.fail = "TimedOut" /\ OutOfTime
     \/ w.fail = "PreHealthCheckFailed" /\ u.check["pre"] # "true"
     \/ w.fail = "PostHealthCheckFailed" /\ pc = "postHealth"
     \/ w.fail \in {"HookFailed", "UnpausingPoolsExpired", "UpgradeWithdrawn"}
  /\ pc' = "idle" \/ w.fail # "TimedOut"

Written(w) == Same(luj, w) \/ Progress(luj, w) \/ Succeeds(luj, w) \/ Fails(luj, w)

\* The job that is reconciled is current when it is written, and not finished.
JobWritten(j) ==
  \/ Same(uj[j], uj'[j])
  \/ /\ j = job /\ pc \in Unfinished /\ luj = uj[j] /\ ~Finished(luj)
     /\ Written(uj'[j])

\* Status().Update of such a copy.
LEMMA StatusWritten ==
  ASSUME TypeOK, LockInv, pc \in Unfinished, NEW new, UpdateStatus(new), Written(new)
  PROVE  \A j \in Jobs : JobWritten(j)
<1> SUFFICES ASSUME NEW j \in Jobs PROVE JobWritten(j)
  OBVIOUS
<1>1. job \in Jobs /\ uj \in [Jobs -> UJ] /\ ~Finished(luj)
  BY DEF TypeOK, WorkerOK, ServerOK, LockInv, Unfinished, Locked
<1>2. uj'[j] = uj[j] \/ (j = job /\ luj = uj[j] /\ uj'[j] = new)
  BY <1>1 DEF UpdateStatus, Current
<1> QED BY <1>1, <1>2 DEF JobWritten, Same

\* No job is updated.
LEMMA NotWritten == ASSUME UNCHANGED uj PROVE \A j \in Jobs : JobWritten(j)
  BY DEF JobWritten, Same

\* An outcome, written by Fail or by Succeed.
LEMMA OutcomeFields ==
  ASSUME NEW u \in UJ
  PROVE  /\ \A r \in FailReasons : LET w == [u EXCEPT !.fail = r] IN
              /\ w.fail = r /\ w.succ = u.succ /\ w.started = u.started
              /\ w.check = u.check /\ w.completed = u.completed
         /\ \A r \in SuccReasons : LET w == [u EXCEPT !.succ = r] IN
              /\ w.succ = r /\ w.fail = u.fail /\ w.started = u.started
              /\ w.check = u.check /\ w.completed = u.completed
         /\ \A t : Same(u, [u EXCEPT !.pools = t]) /\ Same(u, [u EXCEPT !.paused = t])
  BY DEF UJ, Same

\* executeHooks ends the job for a hook that failed, or skips it for a create or
\* start hook that asks for it.
LEMMA HooksStopWritten ==
  ASSUME TypeOK, LockInv, pc \in Unfinished, NEW e, NEW k, HooksStop(e, k),
         e \in {"Create", "Start"} => k = None
  PROVE  \A j \in Jobs : JobWritten(j)
<1>1. luj \in UJ
  BY DEF TypeOK, WorkerOK
<1>2. CASE UNCHANGED uj
  BY <1>2, NotWritten
<1>3. CASE Fail("HookFailed")
  <2>1. Written([luj EXCEPT !.fail = "HookFailed"])
    BY <1>1, <1>3, OutcomeFields DEF Written, Fails, FailReasons, Fail, Return
  <2> QED BY <1>3, <2>1, StatusWritten DEF Fail
<1>4. CASE StatusOfHook(e, k) = "skip" /\ Succeed("HookRequestedSkip")
  <2>1. e \in {"Create", "Start"} /\ ~HooksContinue(e, k)
    BY <1>4 DEF HooksStop, HooksContinue, CanSkipUpdate
  <2>2. <<e, None>> \in HookRuns /\ hook[job][<<e, None>>] = "skip"
    BY <1>4, <2>1 DEF StatusOfHook
  <2>3. Written([luj EXCEPT !.succ = "HookRequestedSkip"])
    BY <1>1, <2>1, <2>2, OutcomeFields DEF Written, Succeeds, SuccReasons
  <2> QED BY <1>4, <2>3, StatusWritten DEF Succeed
<1> QED BY <1>2, <1>3, <1>4 DEF HooksStop

\* A failure is written for its reason.
LEMMA FailWritten ==
  ASSUME TypeOK, LockInv, pc \in Unfinished, NEW r \in FailReasons, Fail(r),
         \/ r = "Expired" /\ ~luj.started
         \/ r = "TimedOut" /\ OutOfTime
         \/ r = "PreHealthCheckFailed" /\ luj.check["pre"] # "true"
         \/ r = "PostHealthCheckFailed" /\ pc = "postHealth"
         \/ r \in {"HookFailed", "UnpausingPoolsExpired", "UpgradeWithdrawn"}
  PROVE  \A j \in Jobs : JobWritten(j)
<1>1. luj \in UJ /\ pc' = "idle"
  BY DEF TypeOK, WorkerOK, Fail, Return
<1> DEFINE w == [luj EXCEPT !.fail = r]
<1>2. /\ w.fail = r /\ w.succ = luj.succ /\ w.started = luj.started
      /\ w.check = luj.check /\ w.completed = luj.completed
  BY <1>1, OutcomeFields
<1> HIDE DEF w
<1>3. Written(w)
  BY <1>1, <1>2 DEF Written, Fails
<1> QED BY <1>3, StatusWritten DEF Fail, w

\* A health check writes its own condition, or fails the job.
LEMMA HealthCheckWritten ==
  ASSUME TypeOK, LockInv, pc \in Unfinished, NEW c \in Checks, NEW l, HealthCheck(c, l),
         c = "pre" => pc = "preHealth", c = "post" => pc = "postHealth"
  PROVE  \A j \in Jobs : JobWritten(j)
<1>1. luj \in UJ
  BY DEF TypeOK, WorkerOK
<1>2. ASSUME NEW t, NEW n, luj.check[c] # "true", UpdateStatus([luj EXCEPT !.check[c] = t, !.since[c] = n])
      PROVE  \A j \in Jobs : JobWritten(j)
  <2> DEFINE w == [luj EXCEPT !.check[c] = t, !.since[c] = n]
  <2>1. /\ w.succ = luj.succ /\ w.fail = luj.fail /\ w.started = luj.started
        /\ w.completed = luj.completed /\ (c # "pre" => w.check["pre"] = luj.check["pre"])
    BY <1>1 DEF UJ
  <2> HIDE DEF w
  <2>2. Written(w)
    BY <1>2, <2>1 DEF Written, Progress
  <2> QED BY <1>2, <2>2, StatusWritten DEF w
<1>3. CASE UNCHANGED uj
  BY <1>3, NotWritten
<1>4. CASE luj.check[c] = "false" /\ Fail(CheckFailed[c])
  <2>1. CheckFailed[c] \in FailReasons
    BY DEF CheckFailed, FailReasons
  <2>2. \/ CheckFailed[c] = "PreHealthCheckFailed" /\ luj.check["pre"] # "true"
        \/ CheckFailed[c] = "PostHealthCheckFailed" /\ pc = "postHealth"
    BY <1>4 DEF CheckFailed
  <2> QED BY <1>4, <2>1, <2>2, FailWritten
<1> QED BY <1>2, <1>3, <1>4 DEF HealthCheck, UpdateAndGoto

\* No step writes anything else.
LEMMA WriteStep ==
  ASSUME TypeOK, LockInv, [Next]_vars PROVE \A j \in Jobs : JobWritten(j)
<1> USE DEF NoOtherCall
<1>0. luj \in UJ /\ uj \in [Jobs -> UJ]
  BY DEF TypeOK, WorkerOK, ServerOK
<1>1. CASE Pending
  <2>1. pc \in Unfinished
    BY <1>1 DEF Pending, CreateHooks, Skip, Expire, Start, WaitForStart, Unstarted, Unfinished
  <2>2. CASE CreateHooks
    BY <2>1, <2>2, HooksStopWritten DEF CreateHooks
  <2>3. CASE Skip
    <3>1. Written([luj EXCEPT !.succ = "Skipped"])
      BY <1>0, <2>3, OutcomeFields DEF Skip, Unstarted, Written, Succeeds, SuccReasons
    <3> QED BY <2>1, <2>3, <3>1, StatusWritten DEF Skip, Succeed
  <2>4. CASE Expire
    BY <2>1, <2>4, FailWritten DEF Expire, Unstarted, FailReasons
  <2>5. CASE Start
    <3>1. Written([luj EXCEPT !.started = TRUE])
      BY <1>0, <2>5 DEF Start, Unstarted, Written, Progress, UJ
    <3> QED BY <2>1, <2>5, <3>1, StatusWritten DEF Start
  <2>6. CASE WaitForStart
    BY <2>6, NotWritten DEF WaitForStart
  <2> QED BY <1>1, <2>2, <2>3, <2>4, <2>5, <2>6 DEF Pending
<1>2. CASE Started
  <2>1. CASE TimeOut
    BY <2>1, FailWritten DEF TimeOut, Running, FailReasons, Unfinished
  <2>2. CASE StartHooks
    BY <2>2, HooksStopWritten DEF StartHooks, Running, Unfinished
  <2>3. CASE StartHooksDone \/ TryLock
    BY <2>3, NotWritten DEF StartHooksDone, TryLock
  <2> QED BY <1>2, <2>1, <2>2, <2>3 DEF Started
<1>3. CASE ManagePools
  <2>1. pc \in Unfinished
    BY <1>3 DEF ManagePools, KeepPool, ExpirePool, UnpauseHooks, TogglePool, PoolsPaused,
                Unfinished, Locked
  <2>2. ASSUME NEW p \in Pools, KeepPool(p) \/ TogglePool(p) PROVE UNCHANGED uj
    BY <2>2 DEF KeepPool, TogglePool
  <2>3. ASSUME NEW p \in Pools, ExpirePool(p) PROVE \A j \in Jobs : JobWritten(j)
    BY <2>1, <2>3, FailWritten DEF ExpirePool, FailReasons
  <2>4. ASSUME NEW p \in Pools, UnpauseHooks(p) PROVE \A j \in Jobs : JobWritten(j)
    BY <2>1, <2>4, HooksStopWritten DEF UnpauseHooks, Unpause
  <2>5. CASE PoolsPaused
    <3>1. UNCHANGED uj \/ \E t : UpdateStatus([luj EXCEPT !.pools = t])
      BY <2>5 DEF PoolsPaused, UpdateAndGoto
    <3> QED BY <1>0, <2>1, <3>1, OutcomeFields, StatusWritten, NotWritten DEF Written
  <2> QED BY <1>3, <2>2, <2>3, <2>4, <2>5, NotWritten DEF ManagePools
<1>4. CASE Upgrade
  <2>1. pc \in Unfinished
    BY <1>4 DEF Upgrade, PreHealthCheck, NoUpgradeWanted, Withdraw, StartUpgrade, MarkInProgress,
         AwaitUpgrade, AwaitPools, UpgradeDone, PostHealthCheck, CompleteHooks, Complete,
         Upgrading, Locked, Unfinished
  <2>2. CASE PreHealthCheck \/ PostHealthCheck
    BY <2>1, <2>2, HealthCheckWritten DEF PreHealthCheck, PostHealthCheck
  <2>3. CASE NoUpgradeWanted \/ StartUpgrade \/ AwaitUpgrade \/ UpgradeDone
    BY <2>3, NotWritten DEF NoUpgradeWanted, StartUpgrade, AwaitUpgrade, UpgradeDone
  <2>4. CASE Withdraw
    BY <2>1, <2>4, FailWritten DEF Withdraw, FailReasons
  <2>5. CASE MarkInProgress
    <3>1. Written([luj EXCEPT !.completed = "false"])
      BY <1>0, <2>5 DEF MarkInProgress, Written, Progress, UJ
    <3> QED BY <2>1, <2>5, <3>1, StatusWritten DEF MarkInProgress
  <2>6. CASE AwaitPools
    <3>1. Written([luj EXCEPT !.completed = "true"])
      BY <1>0, <2>6 DEF AwaitPools, Written, Progress, UJ
    <3>2. UNCHANGED uj \/ UpdateStatus([luj EXCEPT !.completed = "true"])
      BY <2>6 DEF AwaitPools
    <3> QED BY <2>1, <3>1, <3>2, StatusWritten, NotWritten
  <2>7. CASE CompleteHooks
    BY <2>1, <2>7, HooksStopWritten DEF CompleteHooks
  <2>8. CASE Complete
    <3>1. \/ UNCHANGED uj
          \/ \E t : UpdateStatus([luj EXCEPT !.paused = t])
          \/ UpdateStatus([luj EXCEPT !.succ = "Succeeded"])
      BY <2>8 DEF Complete
    <3>2. Written([luj EXCEPT !.succ = "Succeeded"])
      BY <1>0, <2>8, OutcomeFields DEF Complete, Written, Succeeds, SuccReasons
    <3>3. \A t : Written([luj EXCEPT !.paused = t])
      BY <1>0, OutcomeFields DEF Written
    <3> QED BY <2>1, <3>1, <3>2, <3>3, StatusWritten, NotWritten
  <2> QED BY <1>4, <2>2, <2>3, <2>4, <2>5, <2>6, <2>7, <2>8 DEF Upgrade
<1>5. CASE CleanUp
  <2>1. CASE PausedOnFailure
    <3>1. job \in Jobs /\ UpdateStatus([luj EXCEPT !.pools = "PausedOnFailure"])
      BY <2>1 DEF PausedOnFailure, TypeOK, WorkerOK
    <3>2. \A j \in Jobs : uj'[j] = uj[j] \/ Same(uj[j], uj'[j])
      BY <1>0, <3>1, OutcomeFields DEF UpdateStatus, Current
    <3> QED BY <3>2 DEF JobWritten, Same
  <2>2. CASE UNCHANGED uj
    BY <2>2, NotWritten
  <2> QED BY <1>5, <2>1, <2>2 DEF CleanUp, Succeeded, Failed, CleanedUp, Unlock, CleanupPool, PausePool
<1>6. CASE Environment
  <2>1. ASSUME NEW i \in Jobs, Delete(i) PROVE \A j \in Jobs : JobWritten(j)
    BY <1>0, <2>1 DEF Delete, JobWritten, Same, UJ
  <2>2. UNCHANGED uj \/ \E i \in Jobs : Delete(i)
    BY <1>6 DEF Environment, Tick, VersionChanges, HookFinishes, PoolChanges
  <2> QED BY <2>1, <2>2, NotWritten
<1>7. CASE UNCHANGED uj
  BY <1>7, NotWritten
<1> QED BY <1>1, <1>2, <1>3, <1>4, <1>5, <1>6, <1>7 DEF Next, Reconcile, Begin, Abort, PoolFault, vars

-----------------------------------------------------------------------------
(* What a step may do to the worker, the cluster version and the pools.    *)

\* The copy of the job is kept, or is what the server has after the update.
Keeps == UNCHANGED <<job, ver>> /\ (luj' = luj \/ luj' = uj'[job])

\* The reconcile goes on from one label to the next.
Moves ==
  \/ pc = "pending" /\ pc' = "lock" /\ StartHooksDone
  \/ pc = "lock" /\ pc' = "pools" /\ UNCHANGED <<job, luj>> /\ ver'.lock = job
  \/ pc = "pools" /\ pc' = "preHealth" /\ Keeps
  \/ pc = "preHealth" /\ pc' = "desired" /\ Keeps /\ luj'.check["pre"] = "true"
  \/ /\ pc = "desired" /\ pc' = "postHealth" /\ Keeps /\ luj' = luj
     /\ DesiredVersion[job] = None \/ luj.completed = "true"
  \/ /\ pc = "postHealth" /\ pc' = "complete" /\ Keeps
     /\ luj'.check["pre"] = luj.check["pre"] /\ luj'.check["post"] = "true"
     /\ luj'.completed = luj.completed
  \/ pc \in Finishing /\ pc' \in Finishing /\ Keeps

\* Continuing with what the server returned.
LEMMA UpdateAndGotoMoves ==
  ASSUME TypeOK, pc # "idle", NEW new, NEW l, UpdateAndGoto(new, l)
  PROVE  Return \/ (pc' = l /\ Keeps /\ luj' = new)
<1>1. job \in Jobs /\ uj \in [Jobs -> UJ]
  BY DEF TypeOK, WorkerOK, ServerOK
<1>2. CASE Current /\ pc' = l /\ luj' = new /\ UNCHANGED <<job, ver, todo, held>>
  <2>1. uj'[job] = new
    BY <1>1, <1>2 DEF UpdateAndGoto, UpdateStatus
  <2> QED BY <1>2, <2>1 DEF Keeps
<1> QED BY <1>2 DEF UpdateAndGoto

\* A health check that is passed.
LEMMA HealthCheckMoves ==
  ASSUME TypeOK, pc # "idle", NEW c \in Checks, NEW l, HealthCheck(c, l)
  PROVE  \/ Return
         \/ /\ pc' = l /\ Keeps /\ luj'.check[c] = "true" /\ luj'.completed = luj.completed
            /\ c # "pre" => luj'.check["pre"] = luj.check["pre"]
<1>1. luj \in UJ
  BY DEF TypeOK, WorkerOK
<1>2. CASE luj.check[c] = "true" /\ Goto(l) /\ UNCHANGED uj
  BY <1>2 DEF Goto, Keeps
<1>3. CASE UpdateAndGoto([luj EXCEPT !.check[c] = "true", !.since[c] = 0], l)
  <2> DEFINE w == [luj EXCEPT !.check[c] = "true", !.since[c] = 0]
  <2>1. /\ w.check[c] = "true" /\ w.completed = luj.completed
        /\ c # "pre" => w.check["pre"] = luj.check["pre"]
    BY <1>1 DEF UJ
  <2> HIDE DEF w
  <2>2. Return \/ (pc' = l /\ Keeps /\ luj' = w)
    BY <1>3, UpdateAndGotoMoves DEF w
  <2> QED BY <2>1, <2>2
<1> QED BY <1>2, <1>3 DEF HealthCheck, Fail

\* Nothing else happens to the worker.
LEMMA WorkerStep ==
  ASSUME TypeOK, [Next]_vars
  PROVE  \/ Return
         \/ UNCHANGED <<pc, job, luj, ver>>
         \/ \E j \in Jobs : Begin(j)
         \/ Moves
<1>1. CASE Pending
  BY <1>1 DEF Pending, CreateHooks, Skip, Expire, Start, WaitForStart, HooksStop, Fail, Succeed
<1>2. CASE Started
  <2>1. CASE StartHooksDone
    BY <2>1 DEF StartHooksDone, Running, Goto, Moves
  <2>2. CASE TryLock
    <3>1. \/ Return
          \/ /\ pc = "lock" /\ pc' = "pools" /\ UNCHANGED <<job, luj>>
             /\ ver'.lock = job \/ \E v \in {cvSeen, cv} : ver' = [v EXCEPT !.lock = job]
      BY <2>2 DEF TryLock
    <3>2. cvSeen \in CV /\ cv \in CV
      BY DEF TypeOK, CachesOK, ServerOK
    <3> QED BY <3>1, <3>2 DEF Moves, CV
  <2> QED BY <1>2, <2>1, <2>2 DEF Started, TimeOut, StartHooks, HooksStop, Fail, Succeed
<1>3. CASE ManagePools
  <2>1. ASSUME NEW p \in Pools, \/ KeepPool(p) \/ ExpirePool(p)
                                \/ UnpauseHooks(p) \/ TogglePool(p)
        PROVE  Return \/ UNCHANGED <<pc, job, luj, ver>>
    BY <2>1 DEF KeepPool, ExpirePool, UnpauseHooks, TogglePool, Visited, HooksStop, Fail, Succeed
  <2>2. CASE PoolsPaused
    <3>1. pc = "pools"
      BY <2>2 DEF PoolsPaused
    <3>2. CASE Goto("preHealth")
      BY <3>1, <3>2 DEF Goto, Moves, Keeps
    <3>3. CASE \E new : UpdateAndGoto(new, "preHealth")
      BY <3>1, <3>3, UpdateAndGotoMoves DEF Moves
    <3> QED BY <2>2, <3>2, <3>3 DEF PoolsPaused
  <2> QED BY <1>3, <2>1, <2>2 DEF ManagePools
<1>4. CASE Upgrade
  <2>1. CASE PreHealthCheck
    <3>1. pc = "preHealth" /\ HealthCheck("pre", "desired")
      BY <2>1 DEF PreHealthCheck
    <3> QED BY <3>1, HealthCheckMoves DEF Moves
  <2>2. CASE PostHealthCheck
    <3>1. pc = "postHealth" /\ HealthCheck("post", "complete")
      BY <2>2 DEF PostHealthCheck
    <3> QED BY <3>1, HealthCheckMoves DEF Moves
  <2>3. CASE NoUpgradeWanted \/ UpgradeDone
    BY <2>3 DEF NoUpgradeWanted, UpgradeDone, Upgrading, Desired, Goto, Moves, Keeps
  <2> QED BY <1>4, <2>1, <2>2, <2>3
          DEF Upgrade, Withdraw, StartUpgrade, MarkInProgress, AwaitUpgrade, AwaitPools,
              CompleteHooks, Complete, HooksStop, Fail, Succeed
<1>5. CASE CleanUp
  <2>1. CASE Succeeded \/ Failed \/ PausedOnFailure \/ CleanedUp
    BY <2>1 DEF Succeeded, Failed, PausedOnFailure, CleanedUp, Goto, Moves, Keeps, Finishing
  <2>2. ASSUME NEW p \in Pools, CleanupPool(p) \/ PausePool(p)
        PROVE  UNCHANGED <<pc, job, luj, ver>>
    BY <2>2 DEF CleanupPool, PausePool, Visited
  <2>3. CASE Unlock
    BY <2>3 DEF Unlock
  <2> QED BY <1>5, <2>1, <2>2, <2>3 DEF CleanUp
<1>6. CASE Environment
  BY <1>6 DEF Environment, Tick, VersionChanges, Delete, HookFinishes, PoolChanges, worker
<1>7. CASE Abort \/ UNCHANGED vars
  BY <1>7 DEF Abort, vars
<1>8. ASSUME NEW p \in Pools, PoolFault(p) PROVE UNCHANGED <<pc, job, luj, ver>>
  BY <1>8 DEF PoolFault, Visited
<1> QED BY <1>1, <1>2, <1>3, <1>4, <1>5, <1>6, <1>7, <1>8 DEF Next, Reconcile

\* The cluster version is locked,
Acquires ==
  /\ pc = "lock" /\ pc' = "pools" /\ cv.lock = None
  /\ cv'.lock = job /\ cv'.desired = cv.desired /\ cv'.done = cv.done
  /\ ver' = cv' /\ cvSeen' = cv /\ UNCHANGED <<uj, job>>
\* it is unlocked,
Releases ==
  /\ pc \in Finishing /\ pc' = "idle" /\ cv.lock = job
  /\ cv'.lock = None /\ cv'.desired = cv.desired /\ cv'.done = cv.done
  /\ ver' = NewVersion /\ cvSeen' = cv /\ UNCHANGED uj
\* it gets a version
Sets ==
  /\ StartUpgrade /\ ver = cv
  /\ cv'.lock = cv.lock /\ cv'.desired = Desired /\ cv'.done = cv.done
  /\ ver' = NewVersion /\ pc' = "idle" /\ UNCHANGED <<uj, cvSeen>>
\* or none of these.
LeavesVersion ==
  /\ cv'.lock = cv.lock /\ cv'.desired = cv.desired /\ cv.done \subseteq cv'.done
  /\ cvSeen' \in {cvSeen, cv} /\ ver' \in {ver, NewVersion, cvSeen'}

\* A new version is not locked, and nothing is done.
LEMMA NewVersionFacts == NewVersion.lock = None /\ NewVersion.done = {}
  BY DEF NewVersion

\* Nothing else happens to the cluster version.
LEMMA VersionStep ==
  ASSUME TypeOK, [Next]_vars PROVE Acquires \/ Releases \/ Sets \/ LeavesVersion
<1>1. cv \in CV
  BY DEF TypeOK, ServerOK
<1>2. CASE TryLock
  <2>1. PICK v \in {cvSeen, cv} :
          /\ cvSeen' = v /\ pc = "lock" /\ UNCHANGED uj
          /\ \/ ver' = v /\ UNCHANGED cv
             \/ /\ v.lock = None /\ v = cv /\ cv' = [v EXCEPT !.lock = job]
                /\ ver' = cv' /\ pc' = "pools" /\ UNCHANGED job
             \/ Return /\ UNCHANGED cv
    BY <1>2 DEF TryLock, GetVersion, LockFree
  <2> QED BY <1>1, <2>1 DEF Acquires, LeavesVersion, Return, CV
<1>3. CASE Unlock
  <2>1. PICK v \in {cvSeen, cv} :
          /\ cvSeen' = v /\ pc = "unlock" /\ UNCHANGED uj /\ Return
          /\ cv' = IF v.lock = job /\ v = cv THEN [cv EXCEPT !.lock = None] ELSE cv
    BY <1>3 DEF Unlock, GetVersion
  <2> QED BY <1>1, <2>1 DEF Releases, LeavesVersion, Return, Finishing, CV
<1>4. CASE StartUpgrade
  <2>1. /\ UNCHANGED <<uj, cvSeen>> /\ pc' = "idle" /\ ver' = NewVersion
        /\ cv' = IF ver = cv THEN [cv EXCEPT !.desired = Desired] ELSE cv
    BY <1>4 DEF StartUpgrade, caches, Return
  <2> QED BY <1>1, <1>4, <2>1 DEF Sets, LeavesVersion, CV
<1>5. CASE VersionChanges
  <2>1. cv'.lock = cv.lock /\ cv'.desired = cv.desired /\ cv.done \subseteq cv'.done
    BY <1>1, <1>5 DEF VersionChanges, CV
  <2> QED BY <1>5, <2>1 DEF VersionChanges, caches, worker, LeavesVersion
<1>6. ASSUME ~TryLock, ~Unlock, ~StartUpgrade, ~VersionChanges
      PROVE  UNCHANGED <<cv, cvSeen>> /\ ver' \in {ver, NewVersion}
  <2>1. UNCHANGED <<cv, cvSeen>>
    BY <1>6 DEF Next, Reconcile, Pending, Started, ManagePools, Upgrade, CleanUp, Environment,
       CreateHooks, Skip, Expire, Start, WaitForStart, TimeOut, StartHooks, StartHooksDone,
       KeepPool, ExpirePool, UnpauseHooks, TogglePool, PoolsPaused,
       PreHealthCheck, NoUpgradeWanted, Withdraw, MarkInProgress, AwaitUpgrade, AwaitPools,
       UpgradeDone, PostHealthCheck, CompleteHooks, Complete,
       Succeeded, Failed, PausedOnFailure, CleanedUp, CleanupPool, PausePool,
       Begin, Abort, PoolFault, Tick, Delete, HookFinishes, PoolChanges,
       HooksStop, NoOtherCall, caches, vars
  <2>2. ver' \in {ver, NewVersion}
    <3>1. CASE pc = "lock" /\ pc' = "pools"
      BY <1>6, <3>1 DEF Next, Reconcile, Pending, Started, ManagePools, Upgrade, CleanUp, Environment,
         CreateHooks, Skip, Expire, Start, WaitForStart, TimeOut, StartHooks, StartHooksDone,
         Unstarted, Running, Upgrading,
         KeepPool, ExpirePool, UnpauseHooks, TogglePool, PoolsPaused,
         PreHealthCheck, NoUpgradeWanted, Withdraw, MarkInProgress, AwaitUpgrade, AwaitPools,
         UpgradeDone, PostHealthCheck, CompleteHooks, Complete,
         Succeeded, Failed, PausedOnFailure, CleanedUp, CleanupPool, PausePool,
         Begin, Abort, PoolFault, Tick, Delete, HookFinishes, PoolChanges, worker, Return, vars
    <3> QED BY <3>1, WorkerStep DEF Return, Begin, Moves, Keeps, StartHooksDone, Goto
  <2> QED BY <2>1, <2>2
<1> QED BY <1>2, <1>3, <1>4, <1>5, <1>6 DEF LeavesVersion

\* Four kinds of steps change a pool.
LEMMA PoolsUntouched ==
  ASSUME [Next]_vars,
         ~\E q \in Pools : \/ TogglePool(q) \/ CleanupPool(q) \/ PausePool(q) \/ PoolChanges(q)
  PROVE  UNCHANGED mcp
  BY DEF Next, Reconcile, Pending, Started, ManagePools, Upgrade, CleanUp, Environment,
     CreateHooks, Skip, Expire, Start, WaitForStart, TimeOut, StartHooks, StartHooksDone, TryLock,
     KeepPool, ExpirePool, UnpauseHooks, PoolsPaused, StartUpgrade, VersionChanges,
     PreHealthCheck, NoUpgradeWanted, Withdraw, MarkInProgress, AwaitUpgrade, AwaitPools,
     UpgradeDone, PostHealthCheck, CompleteHooks, Complete,
     Succeeded, Failed, PausedOnFailure, CleanedUp, Unlock,
     Begin, Abort, PoolFault, Tick, Delete, HookFinishes,
     HooksStop, NoOtherCall, vars

\* A pool is given back, or taken by the job whose delays are handled.
LEMMA PoolStep ==
  ASSUME TypeOK, [Next]_vars, NEW p \in Pools
  PROVE  \/ mcp'[p].job \in {mcp[p].job, None}
         \/ pc = "pools" /\ mcp'[p].job = job /\ UNCHANGED <<uj, hook>>
<1>1. mcp[p] \in MCP /\ mcp \in [Pools -> MCP]
  BY DEF TypeOK, ServerOK
<1>2. ASSUME NEW q \in Pools, TogglePool(q)
      PROVE  \/ mcp'[p].job = mcp[p].job
             \/ pc = "pools" /\ mcp'[p].job = job /\ UNCHANGED <<uj, hook>>
  <2>1. pc = "pools" /\ UNCHANGED <<uj, hook>>
    BY <1>2 DEF TogglePool
  <2>2. \/ UNCHANGED mcp
        \/ mcp' = [mcp EXCEPT ![q] = [mcp[q] EXCEPT !.paused = ShouldPause(q), !.job = job]]
    BY <1>2 DEF TogglePool
  <2> QED BY <1>1, <2>1, <2>2 DEF MCP
<1>3. ASSUME NEW q \in Pools, CleanupPool(q) \/ PausePool(q) \/ PoolChanges(q)
      PROVE  mcp'[p].job \in {mcp[p].job, None}
  <2>1. CASE CleanupPool(q)
    <3>1. mcp' = mcp \/ mcp' = [mcp EXCEPT ![q] = [mcp[q] EXCEPT !.paused = FALSE, !.job = None]]
      BY <2>1 DEF CleanupPool
    <3> QED BY <1>1, <3>1 DEF MCP
  <2>2. CASE PausePool(q)
    <3>1. mcp' = mcp \/ mcp' = [mcp EXCEPT ![q].paused = TRUE]
      BY <2>2 DEF PausePool
    <3> QED BY <1>1, <3>1 DEF MCP
  <2>3. CASE PoolChanges(q)
    BY <1>1, <2>3 DEF PoolChanges, MCP
  <2> QED BY <1>3, <2>1, <2>2, <2>3
<1>4. ASSUME ~\E q \in Pools : \/ TogglePool(q) \/ CleanupPool(q) \/ PausePool(q) \/ PoolChanges(q)
      PROVE  UNCHANGED mcp
  BY <1>4, PoolsUntouched
<1> QED BY <1>2, <1>3, <1>4

\* The cached jobs change when a reconcile begins.
LEMMA CacheStep ==
  ASSUME TypeOK, [Next]_vars
  PROVE  \A j \in Jobs : \/ ujSeen'[j] = ujSeen[j]
                         \/ ujSeen'[j] = uj[j] /\ UNCHANGED uj
<1>1. ASSUME NEW i \in Jobs, Begin(i)
      PROVE  \A j \in Jobs : ujSeen'[j] = ujSeen[j] \/ (ujSeen'[j] = uj[j] /\ UNCHANGED uj)
  BY <1>1 DEF Begin, GetJob, TypeOK, CachesOK
<1>2. ASSUME ~\E i \in Jobs : Begin(i) PROVE UNCHANGED ujSeen
  BY <1>2 DEF Next, Reconcile, Pending, Started, ManagePools, Upgrade, CleanUp, Environment,
     CreateHooks, Skip, Expire, Start, WaitForStart, TimeOut, StartHooks, StartHooksDone, TryLock,
     KeepPool, ExpirePool, UnpauseHooks, TogglePool, PoolsPaused, StartUpgrade, VersionChanges,
     PreHealthCheck, NoUpgradeWanted, Withdraw, MarkInProgress, AwaitUpgrade, AwaitPools,
     UpgradeDone, PostHealthCheck, CompleteHooks, Complete,
     Succeeded, Failed, PausedOnFailure, CleanedUp, CleanupPool, PausePool, Unlock,
     Abort, PoolFault, Tick, Delete, HookFinishes, PoolChanges,
     HooksStop, NoOtherCall, caches, vars
<1> QED BY <1>1, <1>2

-----------------------------------------------------------------------------
(* The invariants, one by one.                                             *)

\* A state of the reconciler and a step.
GuardInv == PastInv /\ ReachedInv /\ TouchInv /\ WantedInv /\ OutcomeInv
Stepping == TypeOK /\ LockInv /\ StaleInv /\ GuardInv /\ [Next]_vars

\* What is recorded stays recorded, and the history of the cluster version grows.
LEMMA Monotone ==
  ASSUME Stepping
  PROVE  cv.done \subseteq cv'.done /\ \A j \in Jobs : Past(uj[j], uj'[j])
<1>1. cv.done \subseteq cv'.done
  BY VersionStep DEF Stepping, Acquires, Releases, Sets, LeavesVersion
<1>2. \A j \in Jobs : JobWritten(j)
  BY WriteStep DEF Stepping
<1>3. ASSUME NEW j \in Jobs PROVE Past(uj[j], uj'[j])
  BY <1>2 DEF JobWritten, Same, Written, Progress, Succeeds, Fails, Past
<1> QED BY <1>1, <1>3

\* Copies are of the past.
LEMMA PastStep == ASSUME Stepping PROVE PastInv'
<1>1. ASSUME NEW j \in Jobs PROVE Past(ujSeen'[j], uj'[j])
  BY Monotone, CacheStep DEF Stepping, GuardInv, PastInv, Past
<1>2. ASSUME pc' # "idle" PROVE Past(luj', uj'[job'])
  <2>1. CASE \E j \in Jobs : Begin(j)
    BY <2>1 DEF Begin, GetJob, Stepping, GuardInv, PastInv, Past
  <2>2. CASE UNCHANGED <<pc, job, luj>>
    BY <1>2, <2>2, Monotone DEF Stepping, TypeOK, WorkerOK, GuardInv, PastInv, Past
  <2>3. CASE Moves
    <3>1. pc # "idle" /\ job' = job /\ (luj' = luj \/ luj' = uj'[job])
      BY <2>3 DEF Moves, Keeps, StartHooksDone, Goto, Finishing
    <3> QED BY <3>1, Monotone DEF Stepping, TypeOK, WorkerOK, GuardInv, PastInv, Past
  <2> QED BY <1>2, <2>1, <2>2, <2>3, WorkerStep DEF Stepping, Return
<1>3. cvSeen'.done \subseteq cv'.done /\ ver'.done \subseteq cv'.done
  <2>1. cvSeen.done \subseteq cv.done /\ ver.done \subseteq cv.done
    BY DEF Stepping, GuardInv, PastInv
  <2>2. cv.done \subseteq cv'.done
    BY Monotone
  <2>3. cvSeen' \in {cvSeen, cv} /\ ver' \in {ver, cv', NewVersion, cvSeen'}
    BY VersionStep DEF Stepping, Acquires, Releases, Sets, LeavesVersion
  <2> QED BY <2>1, <2>2, <2>3, NewVersionFacts
<1> QED BY <1>1, <1>2, <1>3 DEF PastInv

\* The label tells what has been tested.
LEMMA ReachedStep == ASSUME Stepping PROVE ReachedInv'
<1> USE DEF Stepping, GuardInv
<1>1. ASSUME NEW j \in Jobs PROVE Upgraded(j, uj[j])'
  <2>1. Upgraded(j, uj[j]) /\ cv.done \subseteq cv'.done
    BY Monotone DEF ReachedInv
  <2>2. CASE uj'[j].completed = uj[j].completed
    BY <2>1, <2>2 DEF Upgraded
  <2>3. CASE /\ j = job /\ Upgrading /\ IsVersionUpgradeCompleted(ver)
    BY <2>1, <2>3 DEF Upgrading, Desired, IsVersionUpgradeCompleted, PastInv, Upgraded
  <2>4. CASE uj'[j].completed = "false"
    BY <2>4 DEF Upgraded
  <2>5. JobWritten(j)
    BY WriteStep
  <2> QED BY <2>2, <2>3, <2>4, <2>5 DEF JobWritten, Same, Written, Progress, Succeeds, Fails
<1>2. ASSUME NEW j \in Jobs PROVE Upgraded(j, ujSeen[j])'
  BY <1>1, CacheStep, Monotone DEF ReachedInv, Upgraded
<1>3. ASSUME pc' # "idle" PROVE Upgraded(job, luj)'
  <2>1. CASE \E j \in Jobs : Begin(j)
    BY <2>1, Monotone DEF Begin, ReachedInv, Upgraded
  <2>2. CASE UNCHANGED <<pc, job, luj>>
    BY <1>3, <2>2, Monotone DEF ReachedInv, Upgraded
  <2>3. CASE Moves
    <3>1. pc # "idle" /\ job' = job /\ job \in Jobs /\ (luj' = luj \/ luj' = uj'[job])
      BY <2>3 DEF Moves, Keeps, StartHooksDone, Goto, Finishing, TypeOK, WorkerOK
    <3> QED BY <1>1, <3>1, Monotone DEF ReachedInv, Upgraded
  <2> QED BY <1>3, <2>1, <2>2, <2>3, WorkerStep DEF Return
<1>4. /\ pc' \in {"desired", "postHealth", "complete"} => luj'.check["pre"] = "true"
      /\ pc' \in {"postHealth", "complete"} /\ DesiredVersion[job'] # None =>
           luj'.completed = "true"
      /\ pc' = "complete" => luj'.check["post"] = "true"
  <2>1. CASE \E j \in Jobs : Begin(j)
    BY <2>1 DEF Begin, Branch
  <2>2. CASE UNCHANGED <<pc, job, luj>>
    BY <2>2 DEF ReachedInv
  <2>3. CASE Moves
    BY <2>3 DEF Moves, Keeps, Finishing, ReachedInv
  <2> QED BY <2>1, <2>2, <2>3, WorkerStep DEF Return
<1> QED BY <1>1, <1>2, <1>3, <1>4 DEF ReachedInv

\* What a job has passed stays passed.
LEMMA PassedKept ==
  ASSUME Stepping, NEW j \in Jobs, uj[j].started, StartHooksPassed(j)
  PROVE  uj'[j].started /\ StartHooksPassed(j)'
<1>1. uj'[j].started
  BY Monotone DEF Past
<1>2. HooksKeep
  BY KeepStep DEF Stepping
<1> QED BY <1>1, <1>2 DEF HooksKeep, StartHooksPassed, PassedHooks

\* Nothing is touched before the start and its hooks.
LEMMA TouchStep == ASSUME Stepping PROVE TouchInv'
<1> USE DEF Stepping, GuardInv
<1>0. pc # "idle" => job \in Jobs
  BY DEF TypeOK, WorkerOK
<1>1. ASSUME NEW j \in Jobs, cv'.lock = j PROVE uj'[j].started /\ StartHooksPassed(j)'
  <2>1. cv.lock = j \/ (pc = "lock" /\ j = job)
    BY <1>1, VersionStep, ConstantsAssumption DEF Acquires, Releases, Sets, LeavesVersion
  <2> QED BY <2>1, PassedKept DEF TouchInv
<1>2. ASSUME NEW j \in Jobs, NEW p \in Pools, mcp'[p].job = j
      PROVE  uj'[j].started /\ StartHooksPassed(j)'
  <2>1. mcp[p].job = j \/ (pc = "pools" /\ j = job)
    BY <1>2, PoolStep, ConstantsAssumption
  <2> QED BY <2>1, PassedKept DEF TouchInv, Locked
<1>3. ASSUME pc' \in {"lock"} \cup Locked
      PROVE  \E j \in Jobs : j = job' /\ uj'[j].started /\ StartHooksPassed(j)'
  <2>1. CASE StartHooksDone
    <3>1. /\ pc = "pending" /\ job \in Jobs /\ job' = job /\ luj.started /\ ~Finished(luj)
          /\ HooksContinue("Create", None) /\ HooksContinue("Start", None)
      BY <1>0, <2>1 DEF StartHooksDone, Running, Goto, LockInv, Unfinished
    <3>2. uj[job].started
      BY <3>1 DEF PastInv, Past
    <3>3. \A e \in {"Create", "Start"} : StatusOfHook(e, None) = "complete"
      BY <3>1 DEF HooksContinue, InfluencesOutcome, CanSkipUpdate
    <3>4. StartHooksPassed(job)
      BY <3>3 DEF StatusOfHook, StartHooksPassed, PassedHooks
    <3> QED BY <3>1, <3>2, <3>4, PassedKept
  <2>2. CASE pc \in {"lock"} \cup Locked /\ job' = job
    <3>1. job \in Jobs /\ uj[job].started /\ StartHooksPassed(job)
      BY <1>0, <2>2 DEF TouchInv, Locked
    <3> QED BY <2>2, <3>1, PassedKept
  <2> QED BY <1>3, <2>1, <2>2, WorkerStep DEF Return, Begin, Branch, Moves, Keeps, Locked, Finishing
<1> QED BY <1>1, <1>2, <1>3 DEF TouchInv, StartHooksPassed, PassedHooks

\* A step that writes UpgradeCompleted is one of the lock's owner, whose copy of
\* the cluster version wants the version of the job.
LEMMA CompletedWritten ==
  ASSUME Stepping, NEW j \in Jobs, uj'[j].completed # uj[j].completed
  PROVE  cv.lock = j /\ cv.desired = DesiredVersion[j]
<1>1. JobWritten(j)
  BY WriteStep DEF Stepping
<1>2. j = job /\ Upgrading
  BY <1>1 DEF JobWritten, Same, Written, Progress, Succeeds, Fails
<1>3. cv.lock = j /\ ver.lock = j /\ ver.desired = DesiredVersion[j]
  BY <1>2 DEF Stepping, LockInv, LockHeld, GuardInv, WantedInv, Upgrading, Desired, Locked
<1> QED BY <1>3 DEF Stepping, GuardInv, WantedInv

\* The upgrade of the owner of the lock is the one that is wanted.
LEMMA WantedStep == ASSUME Stepping PROVE WantedInv'
<1> USE DEF Stepping, GuardInv
<1>0. None \notin Jobs
  BY ConstantsAssumption
<1>1. \A j \in Jobs : Finished(uj[j]) => Finished(uj'[j])
  BY LockStep DEF KeepsOutcomes, Finished
<1>2. pc' \in Locked => ver'.lock = job'
  <2>1. CASE \E j \in Jobs : Begin(j)
    BY <2>1 DEF Begin, Branch, Locked
  <2>2. CASE UNCHANGED <<pc, job, luj, ver>>
    BY <2>2 DEF WantedInv
  <2>3. CASE Moves
    BY <2>3 DEF Moves, Keeps, Finishing, WantedInv, Locked
  <2> QED BY <2>1, <2>2, <2>3, WorkerStep DEF Return, Locked
<1> SUFFICES ASSUME NEW j \in Jobs
             PROVE  /\ cv'.lock = j /\ uj'[j].completed # "nil" =>
                         cv'.desired = DesiredVersion[j]
                    /\ uj'[j].completed # "nil" => cv'.lock = j \/ Finished(uj'[j])
                    /\ \A v \in {cvSeen', ver'} :
                         cv'.lock = j /\ v.lock = j /\ v.desired = DesiredVersion[j] =>
                           cv'.desired = DesiredVersion[j]
  BY <1>2 DEF WantedInv
<1>3. CASE Acquires
  <2>1. job \in Jobs /\ ~Finished(uj[job])
    BY <1>0, <1>3 DEF Acquires, StaleInv, TypeOK, WorkerOK
  <2>2. uj[job].completed = "nil"
    BY <1>0, <1>3, <2>1 DEF Acquires, WantedInv
  <2> QED BY <1>0, <1>3, <2>1, <2>2 DEF Acquires, WantedInv, Finished
<1>4. CASE Releases
  <2>1. job \in Jobs /\ Finished(uj[job])
    BY <1>4 DEF Releases, LockInv, TypeOK, WorkerOK, Finishing
  <2> QED BY <1>0, <1>1, <1>4, <2>1 DEF Releases, WantedInv
<1>5. CASE Sets
  <2>1. cv.lock = job /\ cv'.desired = DesiredVersion[job]
    BY <1>5 DEF Sets, StartUpgrade, Desired, LockInv, LockHeld, Locked
  <2> QED BY <1>1, <1>5, <2>1 DEF Sets, WantedInv
<1>6. CASE LeavesVersion
  <2>1. uj'[j].completed # uj[j].completed => cv.lock = j /\ cv.desired = DesiredVersion[j]
    BY CompletedWritten
  <2>2. cv'.lock = cv.lock /\ cv'.desired = cv.desired
    BY <1>6 DEF LeavesVersion
  <2>3. ASSUME NEW v \in {cvSeen', ver'}
        PROVE  v \in {cvSeen, cv, ver} \/ v.lock = None
    BY <1>6, <2>3, NewVersionFacts DEF LeavesVersion
  <2> QED BY <1>0, <1>1, <2>1, <2>2, <2>3 DEF WantedInv
<1> QED BY <1>3, <1>4, <1>5, <1>6, VersionStep

\* An outcome that is written says what it should.
LEMMA OutcomeWritten ==
  ASSUME Stepping, NEW j \in Jobs, j = job, pc \in Unfinished, luj = uj[j],
         ~Finished(luj), Written(uj'[j])
  PROVE  /\ uj'[j].succ = "Skipped" => ~uj'[j].started
         /\ uj'[j].succ = "HookRequestedSkip" =>
              \E e \in {"Create", "Start"} :
                <<e, None>> \in HookRuns /\ hook[j][<<e, None>>] = "skip"
         /\ uj'[j].succ = "Succeeded" =>
              /\ uj'[j].check = [c \in Checks |-> "true"]
              /\ DesiredVersion[j] # None => uj'[j].completed = "true"
         /\ uj'[j].fail = "Expired" => ~uj'[j].started
         /\ uj'[j].fail = "TimedOut" => now > StartAfter[j] + UpgradeTimeout /\ pc' = "idle"
         /\ uj'[j].fail = "PreHealthCheckFailed" => uj'[j].check["pre"] # "true"
         /\ uj'[j].fail = "PostHealthCheckFailed" /\ DesiredVersion[j] # None =>
              uj'[j].completed = "true"
<1>1. luj.succ = "" /\ luj.fail = ""
  BY DEF Finished
<1>2. CASE Same(luj, uj'[j]) \/ Progress(luj, uj'[j])
  BY <1>1, <1>2 DEF Same, Progress
<1>3. CASE Succeeds(luj, uj'[j])
  <2>1. CASE uj'[j].succ = "Succeeded"
    <3>1. pc = "complete"
      BY <1>3, <2>1 DEF Succeeds
    <3>2. /\ luj.check["pre"] = "true" /\ luj.check["post"] = "true"
          /\ DesiredVersion[job] # None => luj.completed = "true"
      BY <3>1 DEF Stepping, GuardInv, ReachedInv
    <3>3. luj.check \in [Checks -> Tri]
      BY DEF Stepping, TypeOK, WorkerOK, UJ
    <3>4. luj.check = [c \in Checks |-> "true"]
      BY <3>2, <3>3
    <3> QED BY <1>1, <1>3, <2>1, <3>2, <3>4 DEF Succeeds
  <2> QED BY <1>1, <1>3, <2>1 DEF Succeeds
<1>4. CASE Fails(luj, uj'[j])
  <2>1. pc = "postHealth" /\ DesiredVersion[job] # None => luj.completed = "true"
    BY DEF Stepping, GuardInv, ReachedInv
  <2> QED BY <1>1, <1>4, <2>1 DEF Fails, OutOfTime
<1> QED BY <1>2, <1>3, <1>4 DEF Written

\* Outcomes say what they should.
LEMMA OutcomeStep == ASSUME Stepping PROVE OutcomeInv'
<1> USE DEF Stepping, GuardInv
<1>0. HooksKeep /\ now <= now' /\ now \in Nat /\ now' \in Nat
  BY KeepStep, TypeStep DEF TypeOK, BoundsOK
<1>1. ASSUME NEW j \in Jobs
      PROVE  /\ uj'[j].succ = "Skipped" => ~uj'[j].started
             /\ uj'[j].succ = "HookRequestedSkip" =>
                  \E e \in {"Create", "Start"} :
                    <<e, None>> \in HookRuns /\ hook'[j][<<e, None>>] = "skip"
             /\ uj'[j].succ = "Succeeded" =>
                  /\ uj'[j].check = [c \in Checks |-> "true"]
                  /\ DesiredVersion[j] # None => uj'[j].completed = "true"
             /\ uj'[j].fail = "Expired" => ~uj'[j].started
             /\ uj'[j].fail = "TimedOut" => now' > StartAfter[j] + UpgradeTimeout
             /\ uj'[j].fail = "PreHealthCheckFailed" => uj'[j].check["pre"] # "true"
             /\ uj'[j].fail = "PostHealthCheckFailed" /\ DesiredVersion[j] # None =>
                  uj'[j].completed = "true"
  <2>0. StartAfter[j] + UpgradeTimeout \in Nat
    BY ConstantsAssumption
  <2>1. CASE Same(uj[j], uj'[j])
    BY <1>0, <2>0, <2>1 DEF Same, OutcomeInv, HooksKeep
  <2>2. CASE j = job /\ pc \in Unfinished /\ luj = uj[j] /\ ~Finished(luj) /\ Written(uj'[j])
    BY <1>0, <2>0, <2>2, OutcomeWritten DEF HooksKeep
  <2> QED BY <2>1, <2>2, WriteStep DEF JobWritten
<1>2. ASSUME pc' \in {"lock"} \cup Locked PROVE uj'[job'].fail # "TimedOut"
  <2>1. CASE StartHooksDone
    <3>1. pc = "pending" /\ job \in Jobs /\ job' = job /\ UNCHANGED uj /\ ~OutOfTime
      BY <2>1 DEF StartHooksDone, Running, Goto, TypeOK, WorkerOK
    <3> QED BY <3>1 DEF OutOfTime, OutcomeInv
  <2>2. CASE pc \in {"lock"} \cup Locked /\ job' = job
    <3>1. job \in Jobs /\ uj[job].fail # "TimedOut"
      BY <2>2 DEF OutcomeInv, TypeOK, WorkerOK, Locked
    <3>2. CASE Same(uj[job], uj'[job])
      BY <2>2, <3>1, <3>2 DEF Same
    <3>3. CASE pc \in Unfinished /\ luj = uj[job] /\ ~Finished(luj) /\ Written(uj'[job])
      BY <1>2, <2>2, <3>1, <3>3, OutcomeWritten DEF Locked
    <3> QED BY <3>1, <3>2, <3>3, WriteStep DEF JobWritten
  <2> QED BY <1>2, <2>1, <2>2, WorkerStep DEF Return, Begin, Branch, Moves, Keeps, Locked, Finishing
<1> QED BY <1>1, <1>2 DEF OutcomeInv

-----------------------------------------------------------------------------
\* Nothing has happened yet.
LEMMA InitGuard == ASSUME Init PROVE GuardInv
<1> USE DEF Init
<1>1. PastInv
  BY DEF PastInv, Past, NewJob, NewVersion
<1>2. ReachedInv
  BY DEF ReachedInv, Upgraded, NewJob
<1>3. TouchInv
  BY ConstantsAssumption DEF TouchInv, Locked, NewVersion, NewPool
<1>4. WantedInv
  BY ConstantsAssumption DEF WantedInv, Locked, NewVersion, NewJob
<1>5. OutcomeInv
  BY DEF OutcomeInv, Locked, NewJob
<1> QED BY <1>1, <1>2, <1>3, <1>4, <1>5 DEF GuardInv

\* Every step keeps the invariant.
LEMMA GuardStep == ASSUME Stepping PROVE GuardInv'
  BY PastStep, ReachedStep, TouchStep, WantedStep, OutcomeStep DEF GuardInv

\* The invariants hold in every reachable state.
THEOREM GuardInvariant == Spec => [](TypeOK /\ LockInv /\ StaleInv /\ GuardInv)
<1>1. Init => StaleInv /\ GuardInv
  BY InitStale, InitGuard
<1>2. TypeOK /\ LockInv /\ StaleInv /\ GuardInv /\ [Next]_vars => StaleInv' /\ GuardInv'
  BY RefinementStep, GuardStep DEF Stepping
<1> QED BY <1>1, <1>2, TypeCorrect, LockInvariant, PTL DEF Spec

\* Success is an upgrade: a job that reports Succeeded has passed both health
\* checks and its version is in the history of the cluster version, for any
\* number of jobs and versions and however old the copies are that the
\* reconciles of checkAndMarkSuccess were decided on.
THEOREM SuccessIsUpgrade == Spec => []SuccessMeansUpgraded
<1>1. GuardInv => SuccessMeansUpgraded
  BY DEF GuardInv, ReachedInv, Upgraded, OutcomeInv, SuccessMeansUpgraded
<1> QED BY <1>1, GuardInvariant, PTL

\* A skipped job has touched nothing: neither the suspension window nor a hook
\* skips a job that has locked the cluster version or annotated a pool.
THEOREM SkipsTouchNothing == Spec => []SkippedUntouched
<1>1. ASSUME GuardInv, NEW j \in Jobs, uj[j].succ \in {"Skipped", "HookRequestedSkip"}
      PROVE  ~(uj[j].started /\ StartHooksPassed(j))
  BY <1>1 DEF GuardInv, OutcomeInv, StartHooksPassed, PassedHooks
<1>2. GuardInv => SkippedUntouched
  BY <1>1 DEF GuardInv, TouchInv, SkippedUntouched
<1> QED BY <1>2, GuardInvariant, PTL

\* The desired version is guarded: only the job that holds the lock changes it,
\* to its own version, after its start window, its hooks and the health check,
\* and not when it was given up for one of them.
THEOREM UpgradesAreGuarded == Spec => UpgradeGuarded
<1> DEFINE Guarded(j) ==
      /\ cv.lock = j /\ cv'.desired = DesiredVersion[j]
      /\ uj[j].started /\ uj[j].check["pre"] = "true"
      /\ PassedHooks(j, "Create") /\ PassedHooks(j, "Start")
      /\ uj[j].succ = ""
      /\ uj[j].fail \in {"", "UpgradeWithdrawn", "UnpausingPoolsExpired", "HookFailed"}
<1>1. ASSUME TypeOK, LockInv, GuardInv, [Next]_vars, cv'.desired # cv.desired
      PROVE  \E j \in Jobs : Guarded(j)
  <2>1. Sets
    BY <1>1, VersionStep DEF Acquires, Releases, LeavesVersion
  <2>2. /\ pc = "desired" /\ job \in Jobs /\ cv.lock = job /\ cv'.desired = DesiredVersion[job]
        /\ DesiredVersion[job] # None /\ cv.desired # DesiredVersion[job]
    BY <1>1, <2>1 DEF Sets, StartUpgrade, Desired, LockInv, LockHeld, Locked, TypeOK, WorkerOK
  <2>3. uj[job].started /\ PassedHooks(job, "Create") /\ PassedHooks(job, "Start")
    BY <1>1, <2>2 DEF GuardInv, TouchInv, StartHooksPassed
  <2>4. uj[job].check["pre"] = "true"
    BY <1>1, <2>2 DEF GuardInv, ReachedInv, PastInv, Past
  <2>5. uj[job].completed = "nil"
    BY <1>1, <2>2 DEF GuardInv, WantedInv
  <2>6. uj[job].fail # "TimedOut"
    BY <1>1, <2>2 DEF GuardInv, OutcomeInv, Locked
  <2>7. uj[job].succ \in SuccReasons \cup {""} /\ uj[job].fail \in FailReasons \cup {""}
    BY <1>1, <2>2 DEF TypeOK, ServerOK, UJ
  <2>8. uj[job].succ = ""
    BY <1>1, <2>2, <2>3, <2>5, <2>7 DEF GuardInv, OutcomeInv, SuccReasons, PassedHooks
  <2>9. uj[job].fail \in {"", "UpgradeWithdrawn", "UnpausingPoolsExpired", "HookFailed"}
    BY <1>1, <2>2, <2>3, <2>4, <2>5, <2>6, <2>7 DEF GuardInv, OutcomeInv, FailReasons
  <2> QED BY <2>2, <2>3, <2>4, <2>8, <2>9
<1>2. TypeOK /\ LockInv /\ GuardInv /\ [Next]_vars =>
        [cv'.desired # cv.desired => \E j \in Jobs : Guarded(j)]_vars
  BY <1>1
<1> QED BY <1>2, GuardInvariant, PTL DEF Spec, UpgradeGuarded
-----------------------------------------------------------------------------
(* The delays of the pools.                                                *)

\* How the reconcile of a finished job goes on.
Ends == /\ UNCHANGED <<job, luj, mcp, cv>>
        /\ \/ pc = "succeeded" /\ pc' = "cleanup"
           \/ pc = "cleanup" /\ todo = {} /\ pc' = "unlock" /\ UNCHANGED uj
           \/ pc = "failed" /\ pc' \in {"pauseOnFailure", "unlock"}
           \/ pc = "pauseOnFailure" /\ pc' = "unlock"

\* There is no other way.
LEMMA EndsStep ==
  ASSUME TypeOK, [Next]_vars, pc' \in Finishing
  PROVE  \/ UNCHANGED <<pc, job, luj>>
         \/ \E j \in Jobs : Begin(j)
         \/ Ends
<1>1. CASE Succeeded \/ Failed \/ PausedOnFailure \/ CleanedUp
  BY <1>1 DEF Succeeded, Failed, PausedOnFailure, CleanedUp, Goto, NoOtherCall, Ends
<1>2. CASE ~(Succeeded \/ Failed \/ PausedOnFailure \/ CleanedUp)
  <2>1. CASE pc \in Finishing /\ pc' \in Finishing /\ Keeps
    BY <1>2, <2>1
       DEF Next, Reconcile, Pending, Started, ManagePools, Upgrade, CleanUp, Environment,
       CreateHooks, Skip, Expire, Start, WaitForStart, Unstarted, Running, TimeOut, StartHooks,
       StartHooksDone, TryLock, KeepPool, ExpirePool, UnpauseHooks, TogglePool, PoolsPaused,
       StartUpgrade, PreHealthCheck, NoUpgradeWanted, Withdraw, Upgrading, MarkInProgress,
       AwaitUpgrade, AwaitPools, UpgradeDone, PostHealthCheck, CompleteHooks, Complete,
       CleanupPool, PausePool, Unlock, Abort, PoolFault, Return, Visited,
       Tick, VersionChanges, Delete, HookFinishes, PoolChanges, worker, vars, Finishing
  <2> QED BY <2>1, WorkerStep DEF Return, Moves, Finishing
<1> QED BY <1>1, <1>2

\* Outcomes are seen as they are.
LEMMA EndedStep == ASSUME Stepping, EndedInv PROVE EndedInv'
<1> USE DEF Stepping
<1>0. KeepsOutcomes /\ (pc # "idle" => job \in Jobs)
  BY LockStep DEF TypeOK, WorkerOK
<1>1. ASSUME NEW j \in Jobs, Finished(ujSeen'[j]) PROVE ujSeen'[j].succ = uj'[j].succ
  BY <1>0, <1>1, CacheStep DEF EndedInv, LockInv, KeepsOutcomes
<1>2. ASSUME pc' \in Finishing
      PROVE  /\ luj'.succ = uj'[job'].succ
             /\ pc' \in {"succeeded", "cleanup"} => luj'.succ # ""
             /\ pc' \in {"failed", "pauseOnFailure"} => luj'.succ = ""
  <2>1. ASSUME NEW j \in Jobs, Begin(j)
        PROVE  /\ luj'.succ = uj'[job'].succ
               /\ pc' \in {"succeeded", "cleanup"} => luj'.succ # ""
               /\ pc' \in {"failed", "pauseOnFailure"} => luj'.succ = ""
    <3>1. /\ luj' \in {ujSeen[j], uj[j]} /\ job' = j /\ UNCHANGED uj
          /\ pc' = Branch(luj')
      BY <2>1 DEF Begin
    <3>2. Finished(luj') /\ pc' \in {"succeeded", "failed"}
      BY <1>2, <3>1 DEF Branch, Finishing, Finished
    <3> QED BY <3>1, <3>2 DEF Branch, EndedInv
  <2>2. ASSUME pc \in Finishing, UNCHANGED <<job, luj>> PROVE luj'.succ = uj'[job'].succ
    BY <1>0, <2>2 DEF Finishing, LockInv, KeepsOutcomes, EndedInv
  <2>3. CASE UNCHANGED <<pc, job, luj>>
    BY <1>2, <2>2, <2>3 DEF EndedInv
  <2>4. CASE Ends
    BY <2>2, <2>4 DEF Ends, Finishing, EndedInv
  <2> QED BY <1>2, <2>1, <2>3, <2>4, EndsStep
<1> QED BY <1>1, <1>2 DEF EndedInv, Finishing

\* The reconciler unpauses a pool when its delay is over, or in the clean-up of
\* its job.
LEMMA UnpauseStep ==
  ASSUME TypeOK, [Next]_vars, NEW p \in Pools, mcp[p].paused, ~mcp'[p].paused, todo' # todo
  PROVE  \/ pc = "pools" /\ ~ShouldPause(p)
         \/ pc = "cleanup" /\ mcp[p].job = job
<1>1. mcp[p] \in MCP /\ mcp \in [Pools -> MCP]
  BY DEF TypeOK, ServerOK
<1>2. ASSUME NEW q \in Pools, TogglePool(q) PROVE pc = "pools" /\ ~ShouldPause(p)
  <2>1. /\ pc = "pools"
        /\ \/ UNCHANGED mcp
           \/ mcp' = [mcp EXCEPT ![q] = [mcp[q] EXCEPT !.paused = ShouldPause(q), !.job = job]]
    BY <1>2 DEF TogglePool
  <2>2. p = q /\ mcp'[p].paused = ShouldPause(q)
    BY <1>1, <2>1 DEF MCP
  <2> QED BY <2>1, <2>2, Zenon
<1>3. ASSUME NEW q \in Pools, CleanupPool(q) PROVE pc = "cleanup" /\ mcp[p].job = job
  <2>1. /\ pc = "cleanup"
        /\ \/ UNCHANGED mcp
           \/ /\ mcp[q].job = job
              /\ mcp' = [mcp EXCEPT ![q] = [mcp[q] EXCEPT !.paused = FALSE, !.job = None]]
    BY <1>3 DEF CleanupPool
  <2> QED BY <1>1, <2>1 DEF MCP
<1>4. ASSUME NEW q \in Pools, PausePool(q) \/ PoolChanges(q) PROVE mcp'[p].paused
  <2>1. CASE PausePool(q)
    <3>1. mcp' = mcp \/ mcp' = [mcp EXCEPT ![q].paused = TRUE]
      BY <2>1 DEF PausePool
    <3> QED BY <1>1, <3>1 DEF MCP
  <2>2. CASE PoolChanges(q)
    BY <2>2 DEF PoolChanges, worker
  <2> QED BY <1>4, <2>1, <2>2
<1>5. ASSUME ~\E q \in Pools : \/ TogglePool(q) \/ CleanupPool(q) \/ PausePool(q) \/ PoolChanges(q)
      PROVE  UNCHANGED mcp
  BY <1>5, PoolsUntouched
<1> QED BY <1>2, <1>3, <1>4, <1>5

\* While the job with the lock is not finished a delay is cut short only by the
\* clean-up of another job, a successful one that owns the pool.
LEMMA CutShort ==
  ASSUME Stepping, EndedInv, NEW j \in Jobs, NEW p \in DelayedPools,
         cv.lock = j, ~Finished(uj[j]), now < StartAfter[j] + DelayMin[p],
         mcp[p].paused, ~mcp'[p].paused, todo' # todo
  PROVE  /\ pc = "cleanup" /\ job \in Jobs \ {j}
         /\ mcp[p].job = job /\ uj[job].succ = "Succeeded"
<1> USE DEF Stepping
<1>0. p \in Pools /\ (pc # "idle" => job \in Jobs)
  BY ConstantsAssumption DEF TypeOK, WorkerOK
<1>1. ~(pc = "pools" /\ ~ShouldPause(p))
  BY DEF LockInv, LockHeld, Locked, ShouldPause
<1>2. pc = "cleanup" /\ mcp[p].job = job
  BY <1>0, <1>1, UnpauseStep
<1>3. Finished(uj[job]) /\ uj[job].succ # "" /\ job \in Jobs
  BY <1>0, <1>2 DEF LockInv, EndedInv, Finishing
<1>4. uj[job].succ = "Succeeded"
  <2>1. uj[job].succ \in SuccReasons
    BY <1>3 DEF TypeOK, ServerOK, UJ
  <2>2. uj[job].started /\ StartHooksPassed(job)
    BY <1>0, <1>2, <1>3 DEF GuardInv, TouchInv
  <2> QED BY <1>3, <2>1, <2>2 DEF GuardInv, OutcomeInv, SuccReasons, StartHooksPassed, PassedHooks
<1> QED BY <1>2, <1>3, <1>4

\* The outcomes that are seen, in every reachable state.
LEMMA EndedInvariant == Spec => []EndedInv
<1>1. Init => EndedInv
  BY DEF Init, EndedInv, Finishing, Finished, NewJob
<1>2. TypeOK /\ LockInv /\ StaleInv /\ GuardInv /\ EndedInv /\ [Next]_vars => EndedInv'
  BY EndedStep DEF Stepping
<1> QED BY <1>1, <1>2, GuardInvariant, PTL DEF Spec

\* No delay ends early but by the clean-up of another job that has succeeded and
\* owns the pool, for any jobs and pools and however old the copies are that
\* pauseUnpauseMachineConfigPools decides on.
THEOREM DelaysEndWithCleanup == Spec => CutShortByCleanup
<1>1. TypeOK /\ LockInv /\ StaleInv /\ GuardInv /\ EndedInv /\ [Next]_vars =>
        [\A j \in Jobs, p \in DelayedPools :
           /\ cv.lock = j /\ ~Finished(uj[j])
           /\ now < StartAfter[j] + DelayMin[p]
           /\ mcp[p].paused /\ ~mcp'[p].paused
           /\ todo' # todo
           => /\ pc = "cleanup" /\ job \in Jobs \ {j}
              /\ mcp[p].job = job /\ uj[job].succ = "Succeeded"]_vars
  BY CutShort DEF Stepping
<1> QED BY <1>1, EndedInvariant, GuardInvariant, PTL DEF Spec, CutShortByCleanup
=============================================================================
