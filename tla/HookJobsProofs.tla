--------------------------- MODULE HookJobsProofs ---------------------------
(***************************************************************************)
(* Hook Jobs: claims, single runs, outcomes and verdicts, for any number   *)
(* of UpgradeJobs and hooks.                                               *)
(***************************************************************************)
EXTENDS HookJobs, TLAPS

Ended == {"complete", "failed"}

\* Types, without what TypeOK says of trackers.
ObjectTypes ==
  /\ uj \in [UpgradeJobs -> UpgradeJob] /\ ujSeen \in [UpgradeJobs -> UpgradeJob]
  /\ claimedBy \in [Hooks -> UpgradeJobs \cup {None}]
  /\ claimSeen \in [Hooks -> UpgradeJobs \cup {None}]
  /\ job \in [Runs -> Job] /\ jobSeen \in [Runs -> Job]
WorkerTypes ==
  /\ pc \in {"idle", "track", "release", "claim", "execute"}
  /\ cur \in UpgradeJobs \cup {None} /\ copy \in UpgradeJob
  /\ pc # "idle" => cur \in UpgradeJobs
  /\ list \in [Hooks -> Job]
  /\ todo \subseteq Hooks /\ mine \subseteq Hooks
  /\ found \subseteq Hooks \X Statuses /\ failed \in BOOLEAN
OtherTypes ==
  /\ news \subseteq UpgradeJobs \cup Hooks \cup Runs
  /\ queue \subseteq UpgradeJobs
  /\ faults \in 0..MaxFaults
  /\ outcome \in [Runs -> Ended \cup {None}] /\ passed \subseteq UpgradeJobs
Types == ObjectTypes /\ WorkerTypes /\ OtherTypes

\* The worker's lists are of its UpgradeJob.
ListInv ==
  /\ pc # "idle" => \A h \in Hooks \ Matching(cur) : list[h] = NoJob(0)
  /\ pc = "release" => todo \subseteq Finalizers(copy, list)
  /\ pc # "execute" => found = {}

\* Claims are made once, and the cache has seen no other.  The hooks at work
\* are those that are claimed, or need no claim, and those still to be claimed.
ClaimInv ==
  /\ \A h \in Hooks : claimSeen[h] \in {None, claimedBy[h]}
  /\ pc \in {"claim", "execute"} =>
       /\ mine \subseteq Matching(cur) /\ todo \subseteq Matching(cur)
       /\ \A h \in mine \cap RunNext : claimedBy[h] = cur
       /\ pc = "claim" => todo \subseteq RunNext
       /\ pc = "execute" => todo \subseteq mine
       /\ \A h \in Matching(cur) :
            \/ h \in mine
            \/ h \in RunNext /\ claimedBy[h] \notin {None, cur}
            \/ h \in RunNext /\ pc = "claim" /\ h \in todo
  /\ \A r \in Runs : job[r].uid > 0 /\ r[2] \in RunNext => claimedBy[r[2]] = r[1]

\* An UpgradeJob that is gone is not found again, and no outcome that a copy
\* has of it is lost at the server.
Tracked(u) == {t \in u.tracker : t[2] # "active"}
Newer(j, u) == uj[j].exists => u.exists /\ Tracked(u) \subseteq uj[j].tracker
CopyInv ==
  /\ \A j \in UpgradeJobs : Newer(j, ujSeen[j])
  /\ pc # "idle" => Newer(cur, copy)
  /\ pc \in {"track", "claim", "execute"} => copy.exists

\* What trackers, copies and caches say of the end of a Job is true.
Truth(j, u) == \A t \in u.tracker :
  <<j, t[1]>> \in Runs /\ (t[2] \in Ended => outcome[<<j, t[1]>>] = t[2])
TruthOf(r, b) == b.status \in Ended => outcome[r] = b.status
TruthInv ==
  /\ \A j \in UpgradeJobs : Truth(j, uj[j]) /\ Truth(j, ujSeen[j])
  /\ \A r \in Runs : TruthOf(r, job[r]) /\ TruthOf(r, jobSeen[r])
  /\ \A r \in Runs : job[r].status = "active" \/ job[r].uid = 0 => outcome[r] = None
  /\ \A r \in Runs : job[r].uid = 0 => job[r].status = None /\ ~job[r].deleted
  /\ pc # "idle" =>
       /\ Truth(cur, copy)
       /\ \A h \in Matching(cur) : TruthOf(<<cur, h>>, list[h])
  /\ pc = "execute" => \A t \in found : t[1] \in mine /\ (t[2] \in Ended => outcome[<<cur, t[1]>>] = t[2])

\* A Job that is gone or going is settled.
GoneInv ==
  /\ \A r \in Runs :
       job[r].deleted \/ (job[r].uid > 0 /\ job[r].status = None) => Settled(r)
  /\ RunsOnce

\* The finalizer stays until the outcome is tracked.
KeptInv ==
  /\ OutcomeKept
  /\ \A r \in Runs : job[r].status = "active" /\ uj[r[1]].exists => job[r].finalizer
  /\ pc = "release" /\ uj[cur].exists =>
       \A h \in Hooks : list[h].status \in Ended =>
         <<h, list[h].status>> \in uj[cur].tracker

\* A tracked end is not followed by an older status of the same Job.
OrderInv ==
  /\ \A j \in UpgradeJobs : \A t, u \in uj[j].tracker : t[1] = u[1] => t = u
  /\ \A j \in UpgradeJobs : \A t \in Tracked(uj[j]) : jobSeen[<<j, t[1]>>].status # "active"
  /\ pc # "idle" => \A h \in Matching(cur) :
       list[h].status \in Ended => jobSeen[<<cur, h>>].status # "active"
  /\ pc = "track" => \A t \in Tracked(uj[cur]) : list[t[1]].status # "active"

\* A verdict is given on all hooks of the UpgradeJob.
VerdictInv ==
  /\ VerdictJustified
  /\ \A j \in passed : \A h \in Matching(j) \cap RunNext : claimedBy[h] # None
  /\ pc = "execute" /\ ~failed => \A h \in mine \ todo : \E s \in Statuses : <<h, s>> \in found

-----------------------------------------------------------------------------
(* Types.                                                                  *)

\* The objects of the initial state.
LEMMA NewObjects ==
  /\ NewUpgradeJob \in UpgradeJob
  /\ [exists |-> FALSE, tracker |-> {}, failed |-> FALSE] \in UpgradeJob
  /\ \A n \in 0..MaxCreations : NoJob(n) \in Job
  /\ NoJob(0) \in Job
<1>1. 0 \in 0..MaxCreations
  BY ConstantsAssumption
<1> QED BY <1>1 DEF NewUpgradeJob, UpgradeJob, NoJob, Job

\* The worker of a reconcile that has ended.
LEMMA ReturnTypes == ASSUME Return PROVE WorkerTypes'
  BY NewObjects DEF Return, WorkerTypes

\* What trackHookJobs makes of a list of Jobs.
LEMMA HookStatusOK ==
  ASSUME NEW l \in [Hooks -> Job]
  PROVE  /\ HookStatus(l) \in SUBSET (Hooks \X Statuses)
         /\ \A t : t \in HookStatus(l) <=>
              t \in Hooks \X Statuses /\ t = <<t[1], l[t[1]].status>>
<1>1. \A h \in Hooks : l[h].status # None => l[h].status \in Statuses
  BY DEF Job
<1>2. \A s \in Statuses : s # None
  BY ConstantsAssumption DEF Statuses
<1> QED BY <1>1, <1>2 DEF HookStatus

\* What it writes is a tracker.
LEMMA TrackerOK ==
  ASSUME NEW u \in UpgradeJob, NEW l \in [Hooks -> Job]
  PROVE  CurrentAndCompleted(u, l) \in SUBSET (Hooks \X Statuses)
  BY HookStatusOK DEF CurrentAndCompleted, UpgradeJob

\* What executeHooks knows of a hook.
LEMMA KnownOK ==
  ASSUME Types, pc = "execute", NEW h \in Matching(cur)
  PROVE  /\ Known(h) \in SUBSET (Hooks \X Statuses)
         /\ \A t : t \in Known(h) <=>
              /\ t \in Hooks \X Statuses /\ t[1] = h
              /\ t \in copy.tracker \/ t[2] = jobSeen[<<cur, h>>].status
<1> DEFINE l == [g \in Hooks |-> IF g = h THEN jobSeen[<<cur, h>>] ELSE NoJob(0)]
<1>1. <<cur, h>> \in Runs /\ h \in Hooks
  BY DEF Matching
<1>2. l \in [Hooks -> Job] /\ l[h] = jobSeen[<<cur, h>>]
  BY <1>1, NewObjects DEF Types, ObjectTypes
<1>3. \A g \in Hooks : g # h => l[g].status = None
  BY DEF NoJob
<1> HIDE DEF l
<1>4. /\ HookStatus(l) \in SUBSET (Hooks \X Statuses)
      /\ \A t : t \in HookStatus(l) <=>
              t \in Hooks \X Statuses /\ t = <<t[1], l[t[1]].status>>
  BY <1>2, HookStatusOK
<1>5. \A s \in Statuses : s # None
  BY ConstantsAssumption DEF Statuses
<1>6. \A t : t \in HookStatus(l) <=>
              t \in Hooks \X Statuses /\ t[1] = h /\ t[2] = jobSeen[<<cur, h>>].status
  BY <1>2, <1>3, <1>4, <1>5
<1>7. copy.tracker \subseteq Hooks \X Statuses
  BY DEF Types, WorkerTypes, UpgradeJob
<1>8. Known(h) = {t \in copy.tracker : t[1] = h} \cup HookStatus(l)
  BY DEF Known, l
<1> QED BY <1>4, <1>6, <1>7, <1>8

\* Get and List.
LEMMA BeginTypes == ASSUME Types, NEW j \in UpgradeJobs, Begin(j) PROVE Types'
<1>1. UNCHANGED <<uj, claimedBy, job, ujSeen, claimSeen, jobSeen, news, mine, found,
                  failed, faults, outcome, passed>>
  BY DEF Begin, objects, caches, history
<1>2. queue' \subseteq UpgradeJobs /\ cur' = j /\ copy' = ujSeen[j]
  BY DEF Begin, Types, OtherTypes
<1>3. list' \in [Hooks -> Job]
  BY NewObjects DEF Begin, Matching, Types, ObjectTypes
<1>4. pc' \in {"track", "release"} /\ todo' \subseteq Hooks
  BY DEF Begin, Finalizers, Types, WorkerTypes
<1> QED BY <1>1, <1>2, <1>3, <1>4 DEF Types, ObjectTypes, WorkerTypes, OtherTypes

\* The update of the tracker.
LEMMA TrackTypes == ASSUME Types, Track PROVE Types'
<1>1. UNCHANGED <<claimedBy, job, ujSeen, claimSeen, jobSeen, faults, outcome, passed>>
  BY DEF Track, history
<1>2. cur \in UpgradeJobs
  BY DEF Track, Types, WorkerTypes
<1>3. CurrentAndCompleted(copy, list) \in SUBSET (Hooks \X Statuses)
  BY TrackerOK DEF Types, WorkerTypes
<1>4. uj' \in [UpgradeJobs -> UpgradeJob]
  BY <1>3 DEF Track, Types, ObjectTypes, UpgradeJob
<1>5. news' \subseteq UpgradeJobs \cup Hooks \cup Runs /\ queue' \subseteq UpgradeJobs
  BY <1>2 DEF Track, Error, Types, OtherTypes
<1>6. WorkerTypes'
  <2>1. CASE Error
    BY <2>1, ReturnTypes DEF Error
  <2>2. CASE pc' = "release" /\ todo' = Finalizers(copy, list)
             /\ UNCHANGED <<queue, cur, copy, list, mine, found, failed>>
    BY <1>2, <2>2 DEF Finalizers, Types, WorkerTypes
  <2> QED BY <2>1, <2>2 DEF Track
<1> QED BY <1>1, <1>4, <1>5, <1>6 DEF Types, ObjectTypes, OtherTypes

\* The removal of a finalizer, of a Job of the UpgradeJob.
LEMMA ReleaseTypes ==
  ASSUME Types, NEW h \in Hooks, Release(h), <<cur, h>> \in Runs PROVE Types'
<1>1. /\ UNCHANGED <<uj, claimedBy, ujSeen, claimSeen, jobSeen, queue,
                 pc, cur, copy, list, mine, found, faults, outcome, passed>>
      /\ todo' \subseteq Hooks /\ failed' \in BOOLEAN
  BY DEF Release, history, Types, WorkerTypes
<1>2. job' \in [Runs -> Job]
  <2>1. job[<<cur, h>>] \in Job
    BY DEF Types, ObjectTypes
  <2>2. NoJob(job[<<cur, h>>].uid) \in Job
    BY <2>1, NewObjects DEF Job
  <2>3. [job[<<cur, h>>] EXCEPT !.finalizer = FALSE] \in Job
    BY <2>1 DEF Job
  <2> QED BY <2>2, <2>3 DEF Release, Types, ObjectTypes
<1>3. news' \subseteq UpgradeJobs \cup Hooks \cup Runs
  BY DEF Release, Types, OtherTypes
<1> QED BY <1>1, <1>2, <1>3 DEF Types, ObjectTypes, WorkerTypes, OtherTypes

\* The second Get.
LEMMA StartHooksTypes == ASSUME Types, StartHooks PROVE Types'
<1>1. UNCHANGED <<uj, claimedBy, job, ujSeen, claimSeen, jobSeen, news, faults, outcome, passed>>
  BY DEF StartHooks, objects, caches, history
<1>2. cur \in UpgradeJobs
  BY DEF StartHooks, Types, WorkerTypes
<1>3. queue' \subseteq UpgradeJobs
  BY <1>2 DEF StartHooks, Error, Types, OtherTypes
<1>4. WorkerTypes'
  <2>1. CASE Return
    BY <2>1, ReturnTypes
  <2>2. CASE /\ pc' = "claim" /\ copy' = ujSeen[cur]
             /\ todo' = {h \in Matching(cur) : Claimable(h)}
             /\ mine' = {h \in Matching(cur) : Claimed(cur, h)}
             /\ UNCHANGED <<queue, cur, list, found, failed>>
    BY <1>2, <2>2 DEF Matching, Types, WorkerTypes, ObjectTypes
  <2> QED BY <2>1, <2>2 DEF StartHooks, Error
<1> QED BY <1>1, <1>3, <1>4 DEF Types, ObjectTypes, OtherTypes

\* A claim.
LEMMA ClaimTypes == ASSUME Types, NEW h \in Hooks, Claim(h) PROVE Types'
<1>1. UNCHANGED <<uj, job, ujSeen, claimSeen, jobSeen, faults, outcome, passed>>
  BY DEF Claim, history
<1>2. cur \in UpgradeJobs
  BY DEF Claim, Types, WorkerTypes
<1>3. /\ claimedBy' \in [Hooks -> UpgradeJobs \cup {None}]
      /\ news' \subseteq UpgradeJobs \cup Hooks \cup Runs /\ queue' \subseteq UpgradeJobs
  BY <1>2 DEF Claim, Error, Types, ObjectTypes, OtherTypes
<1>4. WorkerTypes'
  <2>1. CASE Return
    BY <2>1, ReturnTypes
  <2>2. CASE /\ todo' = todo \ {h} /\ mine' = mine \cup {h}
             /\ UNCHANGED <<queue, pc, cur, copy, list, found, failed>>
    BY <1>2, <2>2 DEF Types, WorkerTypes
  <2> QED BY <2>1, <2>2 DEF Claim, Error
<1> QED BY <1>1, <1>3, <1>4 DEF Types, ObjectTypes, OtherTypes

\* The loop over the hooks begins.
LEMMA RunHooksTypes == ASSUME Types, RunHooks PROVE Types'
  BY DEF RunHooks, objects, caches, history, Types, ObjectTypes, WorkerTypes, OtherTypes

\* The creation of a Job, for a hook that matches.
LEMMA ExecuteTypes ==
  ASSUME Types, NEW h \in Matching(cur), Execute(h) PROVE Types'
<1>1. /\ UNCHANGED <<uj, claimedBy, ujSeen, claimSeen, jobSeen, queue,
                 pc, cur, copy, list, mine, faults, outcome, passed>>
      /\ todo' \subseteq Hooks /\ failed' \in BOOLEAN
  BY DEF Execute, history, Types, WorkerTypes
<1>2. <<cur, h>> \in Runs /\ h \in Hooks /\ job[<<cur, h>>] \in Job
  BY DEF Matching, Types, ObjectTypes
<1>3. job' \in [Runs -> Job]
  <2>1. CASE UNCHANGED job
    BY <2>1 DEF Types, ObjectTypes
  <2>2. CASE job[<<cur, h>>].uid < MaxCreations /\ job' = [job EXCEPT ![<<cur, h>>] =
             [uid |-> job[<<cur, h>>].uid + 1, status |-> "active", finalizer |-> TRUE,
              deleted |-> FALSE]]
    <3>1. job[<<cur, h>>].uid + 1 \in 0..MaxCreations
      BY <1>2, <2>2, ConstantsAssumption DEF Job
    <3> QED BY <2>2, <3>1 DEF Types, ObjectTypes, Job, Statuses
  <2> QED BY <2>1, <2>2 DEF Execute
<1>4. news' \subseteq UpgradeJobs \cup Hooks \cup Runs
  BY <1>2 DEF Execute, Types, OtherTypes
<1>5. found' \subseteq Hooks \X Statuses
  BY <1>2, KnownOK DEF Execute, Types, WorkerTypes, Statuses
<1> QED BY <1>1, <1>3, <1>4, <1>5 DEF Types, ObjectTypes, WorkerTypes, OtherTypes

\* The verdict.
LEMMA DecideTypes == ASSUME Types, Decide PROVE Types'
<1>1. /\ UNCHANGED <<claimedBy, job, ujSeen, claimSeen, jobSeen, faults, outcome>> /\ Return
  BY DEF Decide, Error
<1>2. cur \in UpgradeJobs
  BY DEF Decide, Types, WorkerTypes
<1>3. uj' \in [UpgradeJobs -> UpgradeJob]
  <2>1. uj' = uj \/ uj' = [uj EXCEPT ![cur].failed = TRUE]
    BY DEF Decide
  <2>2. \A u \in UpgradeJob : [u EXCEPT !.failed = TRUE] \in UpgradeJob
    BY DEF UpgradeJob
  <2>3. uj[cur] \in UpgradeJob /\ uj \in [UpgradeJobs -> UpgradeJob]
    BY <1>2 DEF Types, ObjectTypes
  <2>4. [uj[cur] EXCEPT !.failed = TRUE] \in UpgradeJob
    BY <2>2, <2>3
  <2> QED BY <1>2, <2>1, <2>3, <2>4
<1>4. news' = news \/ news' = news \cup {cur}
  BY DEF Decide
<1>5. queue' = queue \/ queue' = queue \cup {cur}
  BY DEF Decide, Error
<1>6. passed' = passed \/ passed' = passed \cup {cur}
  BY DEF Decide
<1>7. OtherTypes'
  BY <1>1, <1>2, <1>4, <1>5, <1>6 DEF Types, OtherTypes
<1> QED BY <1>1, <1>3, <1>7, ReturnTypes DEF Types, ObjectTypes

\* A failed call.
LEMMA CallFailsTypes == ASSUME Types, CallFails PROVE Types'
<1>1. UNCHANGED <<uj, claimedBy, job, ujSeen, claimSeen, jobSeen, news, outcome, passed>>
  BY DEF CallFails, objects, caches, history
<1>2. faults' \in 0..MaxFaults
  BY ConstantsAssumption DEF CallFails, Types, OtherTypes
<1>3. queue' \subseteq UpgradeJobs
  BY DEF CallFails, Error, Types, WorkerTypes, OtherTypes
<1>4. CASE Return
  BY <1>1, <1>2, <1>3, <1>4, ReturnTypes DEF Types, ObjectTypes, OtherTypes
<1>5. CASE todo' \subseteq todo /\ failed' = TRUE /\ UNCHANGED <<queue, pc, cur, copy, list, mine, found>>
  BY <1>1, <1>2, <1>3, <1>5 DEF Types, ObjectTypes, WorkerTypes, OtherTypes
<1> QED BY <1>4, <1>5 DEF CallFails, Error

\* The watches, restarts, ends and deletions.
LEMMA EnvironmentTypes ==
  ASSUME Types, Environment \/ \E o \in UpgradeJobs \cup Hooks \cup Runs : Deliver(o)
  PROVE  Types'
<1> USE DEF objects, caches, worker, history
<1>1. ASSUME NEW o \in UpgradeJobs \cup Hooks \cup Runs, Deliver(o) PROVE Types'
  <2>1. \A r \in Runs : r[1] \in UpgradeJobs
    BY ConstantsAssumption
  <2>2. UNCHANGED <<uj, claimedBy, job, worker, faults, outcome, passed>>
    BY <1>1 DEF Deliver
  <2>3. ujSeen' \in [UpgradeJobs -> UpgradeJob] /\ jobSeen' \in [Runs -> Job]
        /\ claimSeen' \in [Hooks -> UpgradeJobs \cup {None}]
    BY <1>1 DEF Deliver, Types, ObjectTypes
  <2>4. news' \subseteq UpgradeJobs \cup Hooks \cup Runs /\ queue' \subseteq UpgradeJobs
    BY <1>1, <2>1 DEF Deliver, Types, OtherTypes
  <2> QED BY <2>2, <2>3, <2>4 DEF Types, ObjectTypes, WorkerTypes, OtherTypes
<1>2. CASE Restart
  <2>1. faults' \in 0..MaxFaults
    BY <1>2, ConstantsAssumption DEF Restart, Types, OtherTypes
  <2>2. queue' \subseteq UpgradeJobs
    BY <1>2, ConstantsAssumption DEF Restart
  <2> QED BY <1>2, <2>1, <2>2, ReturnTypes DEF Restart, Types, ObjectTypes, OtherTypes
<1>3. ASSUME NEW j \in UpgradeJobs, DeleteUpgradeJob(j) PROVE Types'
  <2>1. faults' \in 0..MaxFaults
    BY <1>3, ConstantsAssumption DEF DeleteUpgradeJob, Types, OtherTypes
  <2>2. uj' \in [UpgradeJobs -> UpgradeJob]
    BY <1>3, NewObjects DEF DeleteUpgradeJob, Types, ObjectTypes
  <2> QED BY <1>3, <2>1, <2>2
          DEF DeleteUpgradeJob, Types, ObjectTypes, WorkerTypes, OtherTypes
<1>4. ASSUME NEW r \in Runs, JobEnds(r) PROVE Types'
  <2>1. job' \in [Runs -> Job] /\ outcome' \in [Runs -> Ended \cup {None}]
    BY <1>4 DEF JobEnds, Types, ObjectTypes, OtherTypes, Job, Ended, Statuses
  <2> QED BY <1>4, <2>1 DEF JobEnds, Types, ObjectTypes, WorkerTypes, OtherTypes
<1>5. ASSUME NEW r \in Runs, DeleteJob(r) PROVE Types'
  <2>1. job[r] \in Job
    BY DEF Types, ObjectTypes
  <2>2. NoJob(job[r].uid) \in Job /\ [job[r] EXCEPT !.deleted = TRUE] \in Job
    BY <2>1, NewObjects DEF Job
  <2>3. job' \in [Runs -> Job]
    BY <1>5, <2>2 DEF DeleteJob, Types, ObjectTypes
  <2> QED BY <1>5, <2>3 DEF DeleteJob, Types, ObjectTypes, WorkerTypes, OtherTypes
<1> QED BY <1>1, <1>2, <1>3, <1>4, <1>5 DEF Environment

-----------------------------------------------------------------------------
(* The worker's lists, and the claims.                                     *)

\* No job: nothing to release, and no outcome.
LEMMA NoJobFacts ==
  ASSUME NEW n
  PROVE  /\ NoJob(n).uid = n /\ NoJob(n).status = None
         /\ ~NoJob(n).finalizer /\ ~NoJob(n).deleted
  BY DEF NoJob

\* trackHookJobs releases Jobs of its UpgradeJob.
LEMMA ReleaseRuns ==
  ASSUME ListInv, Types, NEW h \in Hooks, pc = "release", h \in todo
  PROVE  <<cur, h>> \in Runs
  BY NoJobFacts DEF ListInv, Finalizers, Matching

\* executeHooks creates Jobs of its UpgradeJob.
LEMMA ExecuteMatching ==
  ASSUME ClaimInv, pc = "execute", NEW h \in todo
  PROVE  h \in Matching(cur) /\ h \in mine /\ h \in Hooks /\ <<cur, h>> \in Runs
  BY DEF ClaimInv, Matching

\* No step violates a type.
LEMMA TypesStep ==
  ASSUME Types, ListInv, ClaimInv, Next PROVE Types'
<1>1. ASSUME NEW h \in Hooks, Release(h) PROVE Types'
  <2>1. pc = "release" /\ h \in todo
    BY <1>1 DEF Release
  <2> QED BY <1>1, <2>1, ReleaseRuns, ReleaseTypes
<1>2. ASSUME NEW h \in Hooks, Execute(h) PROVE Types'
  <2>1. h \in Matching(cur)
    BY <1>2, ExecuteMatching DEF Execute
  <2> QED BY <1>2, <2>1, ExecuteTypes
<1> QED BY <1>1, <1>2, BeginTypes, TrackTypes, StartHooksTypes, ClaimTypes, RunHooksTypes,
           DecideTypes, CallFailsTypes, EnvironmentTypes DEF Next, Reconcile

\* The worker lists and releases Jobs of its UpgradeJob only.
LEMMA ListStep ==
  ASSUME Types, ListInv, Next PROVE ListInv'
<1>1. CASE pc' = "idle" /\ found' = {}
  BY <1>1 DEF ListInv
<1>2. CASE Return
  BY <1>2, <1>1 DEF Return
<1>3. ASSUME NEW j \in UpgradeJobs, Begin(j) PROVE ListInv'
  BY <1>3 DEF Begin, ListInv
<1>4. CASE Track
  BY <1>4, <1>2 DEF Track, Error, ListInv
<1>5. ASSUME NEW h \in Hooks, Release(h) PROVE ListInv'
  BY <1>5 DEF Release, ListInv
<1>6. CASE StartHooks
  BY <1>6, <1>2 DEF StartHooks, Error, ListInv
<1>7. ASSUME NEW h \in Hooks, Claim(h) PROVE ListInv'
  BY <1>7, <1>2 DEF Claim, Error, ListInv
<1>8. CASE RunHooks
  BY <1>8 DEF RunHooks, ListInv
<1>9. ASSUME NEW h \in Hooks, Execute(h) PROVE ListInv'
  BY <1>9 DEF Execute, ListInv
<1>10. CASE Decide
  BY <1>10, <1>2 DEF Decide, Error
<1>11. CASE CallFails
  BY <1>11, <1>2 DEF CallFails, Error, ListInv
<1>12. CASE UNCHANGED worker
  BY <1>12 DEF worker, ListInv, Finalizers
<1> QED BY <1>2, <1>3, <1>4, <1>5, <1>6, <1>7, <1>8, <1>9, <1>10, <1>11, <1>12
        DEF Next, Reconcile, Environment, Restart, Deliver, DeleteUpgradeJob, JobEnds, DeleteJob

\* Every Job of a hook with run: Next is created under a claim, and claims are final.
LEMMA ClaimStep ==
  ASSUME Types, Types', ClaimInv, Next PROVE ClaimInv'
<1> DEFINE Seen == \A h \in Hooks : claimSeen[h] \in {None, claimedBy[h]}
           Work == pc \in {"claim", "execute"} =>
             /\ mine \subseteq Matching(cur) /\ todo \subseteq Matching(cur)
             /\ \A h \in mine \cap RunNext : claimedBy[h] = cur
             /\ pc = "claim" => todo \subseteq RunNext
             /\ pc = "execute" => todo \subseteq mine
             /\ \A h \in Matching(cur) :
                  \/ h \in mine
                  \/ h \in RunNext /\ claimedBy[h] \notin {None, cur}
                  \/ h \in RunNext /\ pc = "claim" /\ h \in todo
           Made == \A r \in Runs : job[r].uid > 0 /\ r[2] \in RunNext => claimedBy[r[2]] = r[1]
<1>0. ClaimInv <=> Seen /\ Work /\ Made
  BY DEF ClaimInv
<1>1. ASSUME UNCHANGED <<claimSeen, claimedBy>> PROVE Seen'
  BY <1>0, <1>1
<1>2. ASSUME UNCHANGED <<claimedBy, job>> PROVE Made'
  BY <1>0, <1>2
<1>3. ASSUME UNCHANGED <<claimedBy, pc, cur, mine, todo>> PROVE Work'
  BY <1>0, <1>3 DEF Matching
<1>4. ASSUME Return PROVE Work'
  BY <1>4 DEF Return
<1>5. ASSUME UNCHANGED <<claimedBy, job, claimSeen>>,
             Work' PROVE ClaimInv'
  BY <1>0, <1>1, <1>2, <1>5 DEF ClaimInv
<1>6. ASSUME UNCHANGED claimedBy, \A r \in Runs : job'[r].uid = job[r].uid PROVE Made'
  BY <1>0, <1>6
<1>7. ASSUME NEW j \in UpgradeJobs, Begin(j) PROVE ClaimInv'
  BY <1>7, <1>5 DEF Begin, objects, caches
<1>8. CASE Track
  <2>1. UNCHANGED <<claimedBy, job, claimSeen>> /\ pc' \in {"release", "idle"}
    BY <1>8 DEF Track, Error, Return
  <2> QED BY <2>1, <1>5
<1>9. ASSUME NEW h \in Hooks, Release(h) PROVE ClaimInv'
  <2>1. UNCHANGED <<claimedBy, claimSeen, pc>> /\ pc = "release"
    BY <1>9 DEF Release
  <2>2. \A r \in Runs : job'[r].uid = job[r].uid
    <3> SUFFICES ASSUME NEW r \in Runs PROVE job'[r].uid = job[r].uid
      OBVIOUS
    <3>1. job[r] \in Job /\ [job[r] EXCEPT !.finalizer = FALSE].uid = job[r].uid
      BY DEF Types, ObjectTypes, Job
    <3>2. job'[r] \in {job[r], NoJob(job[r].uid), [job[r] EXCEPT !.finalizer = FALSE]}
      BY <1>9 DEF Release, Types, ObjectTypes
    <3> QED BY <3>1, <3>2, NoJobFacts
  <2> QED BY <2>1, <2>2, <1>0, <1>1, <1>6 DEF ClaimInv
<1>10. CASE StartHooks
  <2>1. UNCHANGED <<claimedBy, job, claimSeen>>
    BY <1>10 DEF StartHooks, objects, caches
  <2>2. CASE /\ pc' = "claim" /\ UNCHANGED cur
             /\ todo' = {h \in Matching(cur) : Claimable(h)}
             /\ mine' = {h \in Matching(cur) : Claimed(cur, h)}
    <3>1. cur \in UpgradeJobs /\ None \notin UpgradeJobs
      BY <1>10, ConstantsAssumption DEF StartHooks, Types, WorkerTypes
    <3>2. \A h \in Matching(cur) : h \in Hooks
      BY DEF Matching
    <3>3. Matching(cur)' = Matching(cur)
      BY <2>2 DEF Matching
    <3>4. Work'
      BY <1>0, <2>1, <2>2, <3>1, <3>2, <3>3 DEF Claimable, Claimed
    <3> QED BY <2>1, <3>4, <1>5
  <2>3. CASE Return
    BY <2>1, <2>3, <1>4, <1>5
  <2> QED BY <1>10, <2>2, <2>3 DEF StartHooks, Error
<1>11. ASSUME NEW h \in Hooks, Claim(h) PROVE ClaimInv'
  <2>1. UNCHANGED <<job, claimSeen>> /\ pc = "claim" /\ h \in todo
    BY <1>11 DEF Claim
  <2>2. CASE Return /\ UNCHANGED claimedBy
    BY <2>1, <2>2, <1>4, <1>5
  <2>3. CASE /\ Unclaimed(h) /\ claimedBy' = [claimedBy EXCEPT ![h] = cur]
             /\ todo' = todo \ {h} /\ mine' = mine \cup {h} /\ UNCHANGED <<pc, cur>>
    <3>1. cur \in UpgradeJobs /\ None \notin UpgradeJobs /\ claimedBy[h] = None
      BY <2>1, <2>3, ConstantsAssumption DEF Types, WorkerTypes, Unclaimed
    <3>2. \A g \in Hooks : claimedBy'[g] = IF g = h THEN cur ELSE claimedBy[g]
      BY <2>3 DEF Types, ObjectTypes
    <3>3. Seen'
      BY <1>0, <2>1, <3>1, <3>2
    <3>4. Matching(cur)' = Matching(cur) /\ Matching(cur) \subseteq Hooks
      BY <2>3 DEF Matching
    <3>5. Work'
      BY <1>0, <2>1, <2>3, <3>1, <3>2, <3>4
    <3>6. Made'
      <4>1. \A r \in Runs : r[1] \in UpgradeJobs /\ r[2] \in Hooks
        BY ConstantsAssumption
      <4> QED BY <4>1, <1>0, <2>1, <3>1, <3>2
    <3> QED BY <3>3, <3>5, <3>6 DEF ClaimInv
  <2> QED BY <1>11, <2>2, <2>3 DEF Claim, Error
<1>12. CASE RunHooks
  <2>1. UNCHANGED <<claimedBy, job, claimSeen, cur, mine>> /\ pc = "claim" /\ todo = {}
        /\ pc' = "execute" /\ todo' = mine
    BY <1>12 DEF RunHooks, objects, caches
  <2>2. Matching(cur)' = Matching(cur)
    BY <2>1 DEF Matching
  <2>3. Work'
    BY <1>0, <2>1, <2>2
  <2> QED BY <2>1, <2>3, <1>5
<1>13. ASSUME NEW h \in Hooks, Execute(h) PROVE ClaimInv'
  <2>1. UNCHANGED <<claimedBy, claimSeen, pc, cur, mine>> /\ pc = "execute" /\ h \in todo
        /\ todo' = todo \ {h}
    BY <1>13 DEF Execute
  <2>2. Matching(cur)' = Matching(cur)
    BY <2>1 DEF Matching
  <2>3. Work'
    BY <1>0, <2>1, <2>2
  <2>4. h \in mine /\ <<cur, h>> \in Runs
    BY <2>1, ExecuteMatching
  <2>5. \A r \in Runs : r # <<cur, h>> => job'[r] = job[r]
    BY <1>13 DEF Execute, Types, ObjectTypes
  <2>6. Made'
    BY <1>0, <2>1, <2>4, <2>5
  <2> QED BY <1>1, <2>1, <2>3, <2>6 DEF ClaimInv
<1>14. CASE Decide
  BY <1>14, <1>4, <1>5 DEF Decide, Error
<1>15. CASE CallFails
  <2>1. UNCHANGED <<claimedBy, job, claimSeen>>
    BY <1>15 DEF CallFails, objects, caches
  <2>2. CASE Return
    BY <2>1, <2>2, <1>4, <1>5
  <2>3. CASE pc \in {"release", "execute"} /\ todo' \subseteq todo /\ UNCHANGED <<pc, cur, mine>>
    <3>1. Work'
      BY <1>0, <2>1, <2>3 DEF Matching
    <3> QED BY <2>1, <3>1, <1>5
  <2> QED BY <1>15, <2>2, <2>3 DEF CallFails, Error
<1>16. ASSUME NEW o \in UpgradeJobs \cup Hooks \cup Runs, Deliver(o) PROVE ClaimInv'
  <2>1. UNCHANGED <<claimedBy, job, pc, cur, mine, todo>>
    BY <1>16 DEF Deliver, objects, worker
  <2>2. \A h \in Hooks : claimSeen'[h] \in {claimSeen[h], claimedBy[h]}
    BY <1>16 DEF Deliver, Types, ObjectTypes
  <2> QED BY <1>0, <1>2, <1>3, <2>1, <2>2 DEF ClaimInv
<1>17. CASE Restart
  <2>1. UNCHANGED <<claimedBy, job>> /\ claimSeen' = claimedBy /\ Return
    BY <1>17 DEF Restart, objects
  <2> QED BY <1>0, <1>2, <1>4, <2>1 DEF ClaimInv
<1>18. ASSUME UNCHANGED <<claimedBy, claimSeen, worker>>,
              \A r \in Runs : job'[r].uid = job[r].uid
       PROVE  ClaimInv'
  BY <1>18, <1>0, <1>1, <1>3, <1>6 DEF ClaimInv, worker
<1>19. ASSUME NEW j \in UpgradeJobs, DeleteUpgradeJob(j) PROVE ClaimInv'
  BY <1>19, <1>18 DEF DeleteUpgradeJob
<1>20. ASSUME NEW r \in Runs, JobEnds(r) PROVE ClaimInv'
  <2>1. \A q \in Runs : job'[q].uid = job[q].uid
    BY <1>20 DEF JobEnds, Types, ObjectTypes, Job
  <2> QED BY <1>20, <2>1, <1>18 DEF JobEnds
<1>21. ASSUME NEW r \in Runs, DeleteJob(r) PROVE ClaimInv'
  <2>1. \A q \in Runs : job'[q].uid = job[q].uid
    BY <1>21, NoJobFacts DEF DeleteJob, Types, ObjectTypes, Job
  <2> QED BY <1>21, <2>1, <1>18 DEF DeleteJob
<1> QED BY <1>7, <1>8, <1>9, <1>10, <1>11, <1>12, <1>13, <1>14, <1>15, <1>16, <1>17,
           <1>19, <1>20, <1>21 DEF Next, Reconcile, Environment

-----------------------------------------------------------------------------
(* What a step may do to a Job, to an UpgradeJob, to the caches and to the  *)
(* worker.                                                                 *)

\* Its finalizer is removed,
Released(r) ==
  /\ pc = "release" /\ cur = r[1] /\ r[2] \in todo /\ job[r] = list[r[2]]
  /\ ~job'[r].finalizer /\ ~job'[r].deleted /\ job'[r].uid = job[r].uid
  /\ \/ job[r].deleted /\ job'[r].status = None
     \/ ~job[r].deleted /\ job'[r].status = job[r].status
  /\ outcome'[r] = outcome[r]
\* it is created,
Created(r) ==
  /\ pc = "execute" /\ cur = r[1] /\ r[2] \in todo
  /\ Known(r[2]) = {} /\ job[r].status = None
  /\ job'[r].uid = job[r].uid + 1 /\ job'[r].status = "active"
  /\ job'[r].finalizer /\ ~job'[r].deleted
  /\ outcome'[r] = outcome[r]
\* it ends
Ends(r) ==
  /\ job[r].status = "active" /\ job'[r].status \in Ended
  /\ job'[r].uid = job[r].uid /\ job'[r].deleted = job[r].deleted
  /\ job'[r].finalizer = job[r].finalizer
  /\ outcome'[r] = job'[r].status
\* or it is deleted.
Deleted(r) ==
  /\ job[r].status # None /\ (EarlyDeletion \/ Settled(r))
  /\ job'[r].uid = job[r].uid /\ job'[r].finalizer = job[r].finalizer
  /\ \/ job'[r].deleted /\ job'[r].status = job[r].status
     \/ ~job'[r].deleted /\ job'[r].status = None
  /\ outcome'[r] = outcome[r]

\* Nothing else happens to a Job.
LEMMA JobStep ==
  ASSUME Types, ListInv, ClaimInv, Next, NEW r \in Runs
  PROVE  \/ job'[r] = job[r] /\ outcome'[r] = outcome[r]
         \/ Released(r)
         \/ Created(r)
         \/ Ends(r) /\ UNCHANGED <<ujSeen, cur, copy>>
         \/ Deleted(r) /\ UNCHANGED <<ujSeen, cur, copy>>
<1>1. job[r] \in Job /\ job \in [Runs -> Job] /\ outcome \in [Runs -> Ended \cup {None}]
  BY DEF Types, ObjectTypes, OtherTypes
<1>2. ASSUME NEW h \in Hooks, Release(h), job'[r] # job[r]
      PROVE  Released(r)
  <2>1. r = <<cur, h>> /\ ListedJob(h) /\ pc = "release" /\ h \in todo /\ UNCHANGED outcome
        /\ job'[r] = IF job[r].deleted THEN NoJob(job[r].uid) ELSE [job[r] EXCEPT !.finalizer = FALSE]
    BY <1>1, <1>2 DEF Release, history
  <2>2. CASE job[r].deleted
    BY <2>1, <2>2, NoJobFacts DEF Released, ListedJob
  <2>3. CASE ~job[r].deleted
    BY <1>1, <2>1, <2>3 DEF Released, ListedJob, Job
  <2> QED BY <2>2, <2>3
<1>3. ASSUME NEW h \in Hooks, Execute(h), job'[r] # job[r]
      PROVE  Created(r)
  <2>1. /\ r = <<cur, h>> /\ Known(h) = {} /\ pc = "execute" /\ h \in todo /\ UNCHANGED outcome
        /\ job[r].status = None
        /\ job'[r] = [uid |-> job[r].uid + 1, status |-> "active", finalizer |-> TRUE,
                      deleted |-> FALSE]
    BY <1>1, <1>3 DEF Execute, history
  <2> QED BY <2>1 DEF Created
<1>4. ASSUME NEW q \in Runs, JobEnds(q), job'[r] # job[r] \/ outcome'[r] # outcome[r]
      PROVE  Ends(r) /\ UNCHANGED <<ujSeen, cur, copy>>
  <2>1. PICK s \in Ended : /\ job' = [job EXCEPT ![q].status = s]
                           /\ outcome' = [outcome EXCEPT ![q] = s]
    BY <1>4 DEF JobEnds, Ended
  <2>2. q = r /\ job[r].status = "active" /\ UNCHANGED <<ujSeen, cur, copy>>
    BY <1>1, <1>4, <2>1 DEF JobEnds, worker
  <2>3. job'[r] = [job[r] EXCEPT !.status = s] /\ outcome'[r] = s
    BY <1>1, <2>1, <2>2
  <2> QED BY <1>1, <2>2, <2>3 DEF Ends, Job
<1>5. ASSUME NEW q \in Runs, DeleteJob(q), job'[r] # job[r]
      PROVE  Deleted(r) /\ UNCHANGED <<ujSeen, cur, copy>>
  <2>1. /\ q = r /\ job[r].status # None /\ (EarlyDeletion \/ Settled(r))
        /\ UNCHANGED <<outcome, ujSeen, cur, copy>>
        /\ job'[r] = IF job[r].finalizer THEN [job[r] EXCEPT !.deleted = TRUE]
                     ELSE NoJob(job[r].uid)
    BY <1>1, <1>5 DEF DeleteJob, history, worker
  <2>2. CASE job[r].finalizer
    BY <1>1, <2>1, <2>2 DEF Deleted, Job
  <2>3. CASE ~job[r].finalizer
    <3>1. job[r].finalizer = FALSE
      BY <1>1, <2>3 DEF Job
    <3>2. job'[r].finalizer = FALSE
      BY <2>1, <2>3 DEF NoJob
    <3> QED BY <2>1, <2>3, <3>1, <3>2, NoJobFacts DEF Deleted
  <2> QED BY <2>2, <2>3
<1>6. ASSUME ~\E q \in Runs : JobEnds(q) PROVE outcome' = outcome
  BY <1>6 DEF Next, Reconcile, Environment, Begin, Track, Release, StartHooks, Claim,
     RunHooks, Execute, Decide, CallFails, Deliver, Restart, DeleteJob, DeleteUpgradeJob, history
<1>7. ASSUME ~\E h \in Hooks : Release(h) \/ Execute(h),
             ~\E q \in Runs : JobEnds(q) \/ DeleteJob(q)
      PROVE  job' = job
  BY <1>7 DEF Next, Reconcile, Environment, Begin, Track, StartHooks, Claim,
     RunHooks, Decide, CallFails, Deliver, Restart, DeleteUpgradeJob, objects
<1> QED BY <1>2, <1>3, <1>4, <1>5, <1>6, <1>7

\* The statuses of Jobs are added to its tracker,
Tracks(j) ==
  /\ pc = "track" /\ cur = j /\ copy = uj[j]
  /\ uj'[j] = [uj[j] EXCEPT !.tracker = CurrentAndCompleted(copy, list)]
  /\ pc' = "release" /\ UNCHANGED <<cur, copy, list, outcome, jobSeen>>
\* it fails
FailsFor(j) ==
  /\ pc = "execute" /\ cur = j /\ todo = {} /\ ~failed /\ Fails
  /\ uj'[j] = [uj[j] EXCEPT !.failed = TRUE] /\ pc' = "idle"
  /\ UNCHANGED <<outcome, jobSeen>>
\* or it is deleted.
Removed(j) ==
  /\ uj'[j] = [exists |-> FALSE, tracker |-> {}, failed |-> FALSE]
  /\ UNCHANGED <<outcome, jobSeen>>

\* Nothing else happens to an UpgradeJob.
LEMMA ObjectStep ==
  ASSUME Types, Next, NEW j \in UpgradeJobs
  PROVE  uj'[j] = uj[j] \/ Tracks(j) \/ FailsFor(j) \/ Removed(j)
<1>1. uj \in [UpgradeJobs -> UpgradeJob]
  BY DEF Types, ObjectTypes
<1>2. CASE Track
  BY <1>1, <1>2 DEF Track, Tracks, history
<1>3. CASE Decide
  <2>1. UNCHANGED <<outcome, jobSeen>> /\ pc = "execute" /\ todo = {} /\ pc' = "idle"
    BY <1>3 DEF Decide, Error, Return
  <2>2. uj' = uj \/ (~failed /\ Fails /\ uj' = [uj EXCEPT ![cur].failed = TRUE])
    BY <1>3 DEF Decide
  <2> QED BY <1>1, <2>1, <2>2 DEF FailsFor
<1>4. ASSUME NEW i \in UpgradeJobs, DeleteUpgradeJob(i) PROVE uj'[j] = uj[j] \/ Removed(j)
  BY <1>1, <1>4 DEF DeleteUpgradeJob, Removed, history
<1>5. ASSUME ~Track, ~Decide, ~\E i \in UpgradeJobs : DeleteUpgradeJob(i)
      PROVE  uj' = uj
  BY <1>5 DEF Next, Reconcile, Environment, Begin, Release, StartHooks, Claim,
     RunHooks, Execute, CallFails, Deliver, Restart, JobEnds, DeleteJob, objects
<1> QED BY <1>2, <1>3, <1>4, <1>5

\* A cache changes to what is at the API server.
LEMMA CacheStep ==
  ASSUME Types, Next
  PROVE  /\ \A j \in UpgradeJobs : ujSeen'[j] = ujSeen[j] \/ (ujSeen'[j] = uj[j] /\ UNCHANGED uj)
         /\ \A r \in Runs : \/ jobSeen'[r] = jobSeen[r]
                            \/ jobSeen'[r] = job[r] /\ UNCHANGED <<uj, job, outcome>>
<1>1. ASSUME NEW o \in UpgradeJobs \cup Hooks \cup Runs, Deliver(o)
      PROVE  /\ UNCHANGED <<uj, job, outcome>>
             /\ \A j \in UpgradeJobs : ujSeen'[j] = ujSeen[j] \/ ujSeen'[j] = uj[j]
             /\ \A r \in Runs : jobSeen'[r] = jobSeen[r] \/ jobSeen'[r] = job[r]
  BY <1>1 DEF Deliver, objects, history, Types, ObjectTypes
<1>2. CASE Restart
  BY <1>2 DEF Restart, objects, history
<1>3. ASSUME ~Restart, ~\E o \in UpgradeJobs \cup Hooks \cup Runs : Deliver(o)
      PROVE  UNCHANGED <<ujSeen, jobSeen>>
  BY <1>3 DEF Next, Reconcile, Environment, Begin, Track, Release, StartHooks, Claim,
     RunHooks, Execute, Decide, CallFails, JobEnds, DeleteJob, DeleteUpgradeJob, caches
<1> QED BY <1>1, <1>2, <1>3

\* A reconcile goes on, reads the cache again, or returns.
LEMMA WorkerStep ==
  ASSUME Types, Next
  PROVE  \/ Return
         \/ UNCHANGED <<pc, cur, copy, list>>
         \/ \E j \in UpgradeJobs : Begin(j)
         \/ /\ pc = "track" /\ pc' = "release" /\ UNCHANGED <<cur, copy, list>>
            /\ Tracks(cur)
         \/ /\ pc = "release" /\ pc' = "claim" /\ copy' = ujSeen[cur] /\ ujSeen[cur].exists
            /\ UNCHANGED <<cur, list, ujSeen, uj, outcome, job>>
         \/ pc = "claim" /\ pc' = "execute" /\ UNCHANGED <<cur, copy, list>>
<1>1. CASE Track
  <2>1. cur \in UpgradeJobs /\ uj \in [UpgradeJobs -> UpgradeJob]
    BY <1>1 DEF Track, Types, ObjectTypes, WorkerTypes
  <2> QED BY <1>1, <2>1 DEF Track, Error, Tracks, history
<1>2. CASE StartHooks
  BY <1>2 DEF StartHooks, Error, objects, caches, history
<1>3. CASE RunHooks
  BY <1>3 DEF RunHooks
<1>4. ASSUME ~Track, ~StartHooks, ~RunHooks, ~\E j \in UpgradeJobs : Begin(j)
      PROVE  Return \/ UNCHANGED <<pc, cur, copy, list>>
  BY <1>4 DEF Next, Reconcile, Environment, Release, Claim, Error,
     Execute, Decide, CallFails, Deliver, Restart, JobEnds, DeleteJob, DeleteUpgradeJob, worker
<1> QED BY <1>1, <1>2, <1>3, <1>4

-----------------------------------------------------------------------------
(* Copies of UpgradeJobs.                                                  *)

\* None is no status, and a status is active or an end.
LEMMA Distinct ==
  /\ None \notin Statuses /\ None \notin Ended /\ None \notin UpgradeJobs
  /\ Ended \subseteq Statuses /\ \A s \in Statuses : s # "active" <=> s \in Ended
  BY ConstantsAssumption DEF Statuses, Ended

\* No step brings an UpgradeJob back, or forgets an outcome it tracks.
LEMMA NothingForgotten ==
  ASSUME Types, Next, NEW j \in UpgradeJobs, uj'[j].exists
  PROVE  uj[j].exists /\ Tracked(uj[j]) \subseteq uj'[j].tracker
<1>1. uj[j] \in UpgradeJob
  BY DEF Types, ObjectTypes
<1>2. Tracked(uj[j]) \subseteq uj[j].tracker
  BY DEF Tracked
<1>3. CASE Tracks(j)
  <2>1. uj'[j].tracker = CurrentAndCompleted(uj[j], list) /\ uj'[j].exists = uj[j].exists
    BY <1>1, <1>3 DEF Tracks, UpgradeJob
  <2> QED BY <2>1 DEF CurrentAndCompleted, Tracked
<1>4. CASE FailsFor(j)
  BY <1>1, <1>2, <1>4 DEF FailsFor, UpgradeJob
<1>5. CASE Removed(j)
  BY <1>5 DEF Removed
<1> QED BY <1>2, <1>3, <1>4, <1>5, ObjectStep

\* The copies of an UpgradeJob are older than the one at the API server.
LEMMA CopyStep == ASSUME Types, Types', CopyInv, Next PROVE CopyInv'
<1>1. \A j \in UpgradeJobs : Newer(j, ujSeen[j])'
  <2> SUFFICES ASSUME NEW j \in UpgradeJobs, uj'[j].exists
               PROVE  ujSeen'[j].exists /\ Tracked(ujSeen'[j]) \subseteq uj'[j].tracker
    BY DEF Newer, Tracked
  <2>1. uj[j].exists /\ Tracked(uj[j]) \subseteq uj'[j].tracker
    BY NothingForgotten
  <2>2. CASE ujSeen'[j] = ujSeen[j]
    BY <2>1, <2>2 DEF CopyInv, Newer, Tracked
  <2>3. CASE ujSeen'[j] = uj[j]
    BY <2>1, <2>3
  <2> QED BY <2>2, <2>3, CacheStep
<1>2. (pc # "idle" => Newer(cur, copy))'
  <2> SUFFICES ASSUME pc' # "idle", uj'[cur'].exists
               PROVE  copy'.exists /\ Tracked(copy') \subseteq uj'[cur'].tracker
    BY DEF Newer, Tracked
  <2>1. cur' \in UpgradeJobs
    BY DEF Types, WorkerTypes
  <2>2. uj[cur'].exists /\ Tracked(uj[cur']) \subseteq uj'[cur'].tracker
    BY <2>1, NothingForgotten
  <2>3. CASE cur' = cur /\ copy' = copy /\ pc # "idle"
    BY <2>2, <2>3 DEF CopyInv, Newer, Tracked
  <2>4. CASE copy' = ujSeen[cur']
    BY <2>1, <2>2, <2>4 DEF CopyInv, Newer, Tracked
  <2> QED BY <2>3, <2>4, WorkerStep DEF Return, Begin
<1>3. (pc \in {"track", "claim", "execute"} => copy.exists)'
  BY WorkerStep DEF CopyInv, Return, Begin
<1> QED BY <1>1, <1>2, <1>3 DEF CopyInv

-----------------------------------------------------------------------------
(* Under the assumption that a Job is not deleted before it is settled.    *)

HookInv == Types /\ ListInv /\ ClaimInv /\ CopyInv /\ TruthInv /\ GoneInv

\* A Job that is gone is known to executeHooks: no second one is created.
LEMMA CreatedOnce ==
  ASSUME HookInv, NEW r \in Runs, Created(r)
  PROVE  job[r].uid = 0 /\ outcome[r] = None
<1>1. r[1] \in UpgradeJobs /\ r[2] \in Hooks /\ r = <<r[1], r[2]>>
  BY ConstantsAssumption
<1>2. SUFFICES ASSUME job[r].uid > 0 PROVE FALSE
  BY DEF HookInv, TruthInv, Types, ObjectTypes, Job
<1>3. Settled(r)
  BY <1>2 DEF HookInv, GoneInv, Created
<1>4. <<r[2], outcome[r]>> \in copy.tracker
  BY <1>3 DEF Settled, Created, HookInv, CopyInv
<1>5. r[2] \in Matching(cur) /\ copy.tracker \subseteq Hooks \X Statuses
  BY <1>1 DEF Created, Matching, HookInv, Types, WorkerTypes, UpgradeJob
<1>6. <<r[2], outcome[r]>> \in Known(r[2])
  BY <1>4 DEF Known
<1> QED BY <1>6 DEF Created

\* An outcome is set once.
LEMMA OutcomeOnce ==
  ASSUME HookInv, Next, NEW r \in Runs
  PROVE  outcome'[r] = outcome[r] \/ outcome[r] = None
<1>1. CASE Ends(r)
  BY <1>1 DEF Ends, HookInv, TruthInv
<1> QED BY <1>1, JobStep DEF HookInv, Released, Created, Deleted

\* What is settled stays settled, so that no hook runs twice.
LEMMA GoneStep ==
  ASSUME ~EarlyDeletion, HookInv, Next PROVE GoneInv'
<1> USE DEF HookInv
<1>1. ASSUME NEW r \in Runs,
             (job[r].deleted \/ (job[r].uid > 0 /\ job[r].status = None))'
      PROVE  Settled(r)'
  <2>1. r[1] \in UpgradeJobs /\ r[2] \in Hooks
    BY ConstantsAssumption
  <2> DEFINE seen(u, o) == ~u.exists \/ <<r[2], o>> \in u.tracker
  <2>2. Settled(r) <=> seen(ujSeen[r[1]], outcome[r]) /\ (cur = r[1] => seen(copy, outcome[r]))
    BY DEF Settled
  <2>3. Settled(r)' <=> /\ seen(ujSeen'[r[1]], outcome'[r])
                        /\ (cur' = r[1] => seen(copy', outcome'[r]))
    BY DEF Settled
  <2>4. CASE Ends(r) /\ UNCHANGED <<ujSeen, cur, copy>>
    <3>1. Settled(r)
      BY <1>1, <2>4, Distinct DEF Ends, GoneInv
    <3>2. outcome[r] = None
      BY <2>4 DEF Ends, TruthInv
    <3>3. ujSeen[r[1]] \in UpgradeJob /\ copy \in UpgradeJob
      BY <2>1 DEF Types, ObjectTypes, WorkerTypes
    <3>4. ASSUME NEW u \in UpgradeJob PROVE <<r[2], None>> \notin u.tracker
      BY Distinct DEF UpgradeJob
    <3>5. ~ujSeen[r[1]].exists /\ (cur = r[1] => ~copy.exists)
      BY <2>2, <3>1, <3>2, <3>3, <3>4
    <3> QED BY <2>3, <2>4, <3>5
  <2>5. CASE Deleted(r) /\ UNCHANGED <<ujSeen, cur, copy>>
    BY <2>2, <2>3, <2>5 DEF Deleted
  <2>6. ASSUME outcome'[r] = outcome[r], Settled(r) PROVE Settled(r)'
    <3>1. seen(ujSeen'[r[1]], outcome[r])
      <4>1. CASE ujSeen'[r[1]] = ujSeen[r[1]]
        BY <2>2, <2>6, <4>1
      <4>2. CASE ujSeen'[r[1]] = uj[r[1]]
        <5>1. ASSUME uj[r[1]].exists PROVE <<r[2], outcome[r]>> \in uj[r[1]].tracker
          <6>1. ujSeen[r[1]].exists /\ Tracked(ujSeen[r[1]]) \subseteq uj[r[1]].tracker
            BY <2>1, <5>1 DEF CopyInv, Newer
          <6>2. <<r[2], outcome[r]>> \in ujSeen[r[1]].tracker
            BY <2>2, <2>6, <6>1
          <6>3. outcome[r] # "active"
            BY ConstantsAssumption DEF Types, OtherTypes, Ended
          <6> QED BY <6>1, <6>2, <6>3 DEF Tracked
        <5> QED BY <4>2, <5>1
      <4> QED BY <2>1, <4>1, <4>2, CacheStep
    <3>2. ASSUME cur' = r[1] PROVE seen(copy', outcome[r])
      <4>1. CASE cur' = cur /\ copy' = copy
        BY <2>2, <2>6, <3>2, <4>1
      <4>2. CASE copy' = ujSeen[cur']
        BY <2>2, <2>6, <3>2, <4>2
      <4>3. CASE cur' = None
        BY <2>1, <3>2, <4>3, Distinct
      <4> QED BY <4>1, <4>2, <4>3, WorkerStep DEF Return, Begin
    <3> QED BY <2>3, <2>6, <3>1, <3>2
  <2>7. CASE job'[r] = job[r] /\ outcome'[r] = outcome[r]
    BY <1>1, <2>6, <2>7 DEF GoneInv
  <2>8. CASE Released(r)
    BY <1>1, <2>6, <2>8 DEF GoneInv, Released
  <2>9. CASE Created(r)
    BY <1>1, <2>9, Distinct DEF Created, Statuses
  <2> QED BY <2>4, <2>5, <2>7, <2>8, <2>9, JobStep
<1>2. ASSUME NEW r \in Runs PROVE job'[r].uid <= 1
  <2>1. job[r].uid \in Nat /\ job[r].uid <= 1
    BY DEF GoneInv, RunsOnce, Types, ObjectTypes, Job
  <2>2. CASE Created(r)
    BY <2>2, CreatedOnce DEF Created
  <2> QED BY <2>1, <2>2, JobStep DEF Released, Ends, Deleted
<1> QED BY <1>1, <1>2 DEF GoneInv, RunsOnce

\* Trackers, copies and caches are right about the ends of Jobs.
LEMMA TruthStep ==
  ASSUME HookInv, Types', Next PROVE TruthInv'
<1> USE DEF HookInv
<1>1. \A r \in Runs : outcome'[r] = outcome[r] \/ outcome[r] = None
  BY OutcomeOnce
<1>2. \A r \in Runs : r[1] \in UpgradeJobs /\ r[2] \in Hooks /\ r = <<r[1], r[2]>>
  BY ConstantsAssumption
\* What is true of an outcome stays true.
<1>3. ASSUME NEW j, NEW T, \A t \in T :
               <<j, t[1]>> \in Runs /\ (t[2] \in Ended => outcome[<<j, t[1]>>] = t[2])
      PROVE  \A t \in T :
               <<j, t[1]>> \in Runs /\ (t[2] \in Ended => outcome'[<<j, t[1]>>] = t[2])
  BY <1>1, <1>3, Distinct
<1>4. ASSUME NEW j \in UpgradeJobs PROVE Truth(j, uj[j])'
  <2>1. uj[j] \in UpgradeJob /\ Truth(j, uj[j])
    BY DEF Types, ObjectTypes, TruthInv
  <2>2. CASE uj'[j].tracker = uj[j].tracker
    BY <1>3, <2>1, <2>2 DEF Truth
  <2>3. CASE Tracks(j)
    <3>1. uj'[j].tracker = CurrentAndCompleted(uj[j], list) /\ UNCHANGED outcome
      BY <2>1, <2>3 DEF Tracks, UpgradeJob
    <3>2. \A t \in HookStatus(list) : t \in Hooks \X Statuses /\ t[2] = list[t[1]].status
      BY HookStatusOK DEF Types, WorkerTypes
    <3>3. \A t \in HookStatus(list) : t[1] \in Matching(cur)
      BY <3>2, <2>3, NoJobFacts, Distinct DEF ListInv, Tracks
    <3>4. \A t \in HookStatus(list) :
            <<j, t[1]>> \in Runs /\ (t[2] \in Ended => outcome[<<j, t[1]>>] = t[2])
      BY <3>2, <3>3, <2>3 DEF TruthInv, TruthOf, Tracks, Matching
    <3> QED BY <2>1, <3>1, <3>4 DEF Truth, CurrentAndCompleted
  <2>4. CASE FailsFor(j)
    <3>1. uj'[j].tracker = uj[j].tracker
      BY <2>1, <2>4 DEF FailsFor, UpgradeJob
    <3> QED BY <2>2, <3>1
  <2>5. CASE Removed(j)
    BY <2>5 DEF Removed, Truth
  <2> QED BY <2>2, <2>3, <2>4, <2>5, ObjectStep
<1>5. ASSUME NEW j \in UpgradeJobs PROVE Truth(j, ujSeen[j])'
  <2>1. ujSeen'[j] = ujSeen[j] \/ ujSeen'[j] = uj[j]
    BY CacheStep
  <2>2. Truth(j, ujSeen[j]) /\ Truth(j, uj[j])
    BY DEF TruthInv
  <2>3. CASE ujSeen'[j] = ujSeen[j]
    BY <1>3, <2>2, <2>3 DEF Truth
  <2>4. CASE ujSeen'[j] = uj[j]
    BY <1>3, <2>2, <2>4 DEF Truth
  <2> QED BY <2>1, <2>3, <2>4
<1>6. ASSUME NEW r \in Runs
      PROVE  /\ TruthOf(r, job[r])'
             /\ (job[r].status = "active" \/ job[r].uid = 0 => outcome[r] = None)'
             /\ (job[r].uid = 0 => job[r].status = None /\ ~job[r].deleted)'
  <2>1. job[r].uid \in Nat /\ TruthOf(r, job[r])
        /\ (job[r].status = "active" \/ job[r].uid = 0 => outcome[r] = None)
        /\ (job[r].uid = 0 => job[r].status = None /\ ~job[r].deleted)
    BY DEF TruthInv, Types, ObjectTypes, Job
  <2>2. CASE job'[r] = job[r] /\ outcome'[r] = outcome[r]
    BY <2>1, <2>2 DEF TruthOf
  <2>3. CASE Released(r)
    BY <2>1, <2>3, ConstantsAssumption DEF Released, TruthOf, Ended
  <2>4. CASE Created(r)
    BY <2>1, <2>4, CreatedOnce DEF Created, TruthOf, Ended
  <2>5. CASE Ends(r)
    BY <2>1, <2>5, ConstantsAssumption DEF Ends, TruthOf, Ended
  <2>6. CASE Deleted(r)
    BY <2>1, <2>6, ConstantsAssumption DEF Deleted, TruthOf, Ended
  <2> QED BY <2>2, <2>3, <2>4, <2>5, <2>6, JobStep
<1>7. ASSUME NEW r \in Runs PROVE TruthOf(r, jobSeen[r])'
  <2>1. CASE jobSeen'[r] = jobSeen[r]
    BY <1>1, <2>1, Distinct DEF TruthInv, TruthOf
  <2>2. CASE jobSeen'[r] = job[r] /\ UNCHANGED outcome
    BY <2>2 DEF TruthInv, TruthOf
  <2> QED BY <2>1, <2>2, CacheStep
<1>8. ASSUME pc' # "idle" PROVE Truth(cur, copy)'
  <2>1. cur' \in UpgradeJobs
    BY <1>8 DEF Types, WorkerTypes
  <2>2. CASE cur' = cur /\ copy' = copy /\ pc # "idle"
    BY <1>3, <2>2 DEF TruthInv, Truth
  <2>3. CASE copy' = ujSeen[cur']
    BY <1>3, <2>1, <2>3 DEF TruthInv, Truth
  <2> QED BY <1>8, <2>2, <2>3, WorkerStep DEF Return, Begin
<1>9. ASSUME pc' # "idle" PROVE (\A h \in Matching(cur) : TruthOf(<<cur, h>>, list[h]))'
  <2>1. CASE cur' = cur /\ list' = list /\ pc # "idle"
    BY <1>1, <2>1, Distinct DEF TruthInv, TruthOf, Matching
  <2>2. CASE /\ list' = [h \in Hooks |-> IF h \in Matching(cur') THEN jobSeen[<<cur', h>>] ELSE NoJob(0)]
             /\ UNCHANGED outcome
    BY <2>2 DEF TruthInv, TruthOf, Matching
  <2> QED BY <1>9, <2>1, <2>2, WorkerStep DEF Return, Begin, history
<1>10. (pc = "execute" => \A t \in found : t[1] \in mine /\ (t[2] \in Ended => outcome[<<cur, t[1]>>] = t[2]))'
  <2>1. ASSUME NEW h \in Hooks, Execute(h)
        PROVE  \A t \in found' : t[1] \in mine /\ (t[2] \in Ended => outcome[<<cur, t[1]>>] = t[2])
    <3>1. h \in Matching(cur) /\ h \in mine /\ <<cur, h>> \in Runs /\ pc = "execute"
      BY <2>1, ExecuteMatching DEF Execute
    <3>2. \A t \in Known(h) : t[1] = h /\ (t \in copy.tracker \/ t[2] = jobSeen[<<cur, h>>].status)
      BY <3>1, KnownOK
    <3>3. \A t \in Known(h) : t[1] \in mine /\ (t[2] \in Ended => outcome[<<cur, t[1]>>] = t[2])
      BY <3>1, <3>2 DEF TruthInv, Truth, TruthOf
    <3>4. found' \in {found, found \cup Known(h), found \cup {<<h, "active">>}}
      BY <2>1 DEF Execute
    <3> QED BY <3>1, <3>3, <3>4 DEF TruthInv, Ended
  <2>2. ASSUME NEW h \in Hooks, Execute(h) PROVE UNCHANGED <<cur, mine, outcome>>
    BY <2>2 DEF Execute, history
  <2>3. CASE pc' # "execute"
    BY <2>3
  <2>4. CASE found' = {}
    BY <2>4
  <2>5. CASE UNCHANGED <<pc, cur, mine, found>>
    <3>1. ASSUME pc = "execute", NEW t \in found
          PROVE  t[1] \in mine /\ (t[2] \in Ended => outcome'[<<cur, t[1]>>] = t[2])
      BY <1>1, <3>1, Distinct DEF TruthInv, ClaimInv, Matching
    <3> QED BY <2>5, <3>1
  <2>6. CASE \E h \in Hooks : Execute(h)
    BY <2>1, <2>2, <2>6
  <2>7. CASE RunHooks
    BY <2>7, <2>4 DEF RunHooks, ListInv
  <2>8. ASSUME ~RunHooks, ~\E h \in Hooks : Execute(h)
        PROVE  pc' # "execute" \/ UNCHANGED <<pc, cur, mine, found>>
    BY <2>8 DEF Next, Reconcile, Environment, Begin, Track, Release, StartHooks, Claim, Error, Return,
       Decide, CallFails, Deliver, Restart, JobEnds, DeleteJob, DeleteUpgradeJob, worker
  <2> QED BY <2>3, <2>5, <2>6, <2>7, <2>8
<1> QED BY <1>4, <1>5, <1>6, <1>7, <1>8, <1>9, <1>10 DEF TruthInv

-----------------------------------------------------------------------------
(* Outcomes are kept, and trackers are functions.                          *)

\* The outcome is tracked before the finalizer goes, and stays tracked.
LEMMA KeptStep ==
  ASSUME HookInv, HookInv', KeptInv, Next PROVE KeptInv'
<1> USE DEF HookInv
<1>1. \A r \in Runs : r[1] \in UpgradeJobs /\ r[2] \in Hooks /\ r = <<r[1], r[2]>>
  BY ConstantsAssumption
\* What an UpgradeJob tracks of an end stays tracked.
<1>2. ASSUME NEW j \in UpgradeJobs, uj'[j].exists, NEW t \in uj[j].tracker, t[2] \in Ended
      PROVE  t \in uj'[j].tracker
  BY <1>2, NothingForgotten DEF Tracked, Ended
<1>3. ASSUME NEW r \in Runs,
             (outcome[r] # None /\ ~job[r].finalizer /\ uj[r[1]].exists)'
      PROVE  (<<r[2], outcome[r]>> \in uj[r[1]].tracker)'
  <2>1. uj[r[1]].exists
    BY <1>1, <1>3, NothingForgotten
  <2>2. SUFFICES ASSUME TRUE
                 PROVE  outcome'[r] = outcome[r] /\ <<r[2], outcome[r]>> \in uj[r[1]].tracker
    BY <1>1, <1>2, <1>3 DEF Types, OtherTypes
  <2>3. CASE job'[r] = job[r] /\ outcome'[r] = outcome[r]
    BY <1>3, <2>1, <2>3 DEF KeptInv, OutcomeKept
  <2>4. CASE Released(r)
    <3>1. r[2] \in Finalizers(copy, list) /\ Newer(cur, copy) /\ r[1] = cur
      BY <2>4 DEF Released, ListInv, CopyInv
    <3>2. isJobFinished(list[r[2]])
      BY <2>1, <3>1 DEF Finalizers, Newer
    <3>3. list[r[2]].status \in Ended /\ <<r[2], list[r[2]].status>> \in uj[cur].tracker
      BY <1>1, <2>1, <2>4, <3>1, <3>2 DEF isJobFinished, Ended, KeptInv, Released
    <3>4. outcome[r] = list[r[2]].status
      BY <2>4, <3>3 DEF Released, TruthInv, TruthOf
    <3> QED BY <2>4, <3>1, <3>3, <3>4 DEF Released
  <2>5. CASE Created(r)
    BY <1>3, <2>5 DEF Created
  <2>6. CASE Ends(r)
    BY <1>3, <2>1, <2>6 DEF Ends, KeptInv
  <2>7. CASE Deleted(r)
    BY <1>3, <2>1, <2>7 DEF Deleted, KeptInv, OutcomeKept
  <2> QED BY <2>3, <2>4, <2>5, <2>6, <2>7, JobStep
<1>4. ASSUME NEW r \in Runs, (job[r].status = "active" /\ uj[r[1]].exists)'
      PROVE  job'[r].finalizer
  <2>1. uj[r[1]].exists
    BY <1>1, <1>4, NothingForgotten
  <2>2. CASE job'[r] = job[r]
    BY <1>4, <2>1, <2>2 DEF KeptInv
  <2>3. CASE Released(r)
    <3>1. r[2] \in Finalizers(copy, list) /\ Newer(cur, copy) /\ r[1] = cur
      BY <2>3 DEF Released, ListInv, CopyInv
    <3>2. isJobFinished(list[r[2]])
      BY <2>1, <3>1 DEF Finalizers, Newer
    <3> QED BY <1>4, <2>3, <3>2, ConstantsAssumption DEF Released, isJobFinished
  <2>4. CASE Created(r)
    BY <2>4 DEF Created
  <2>5. CASE Ends(r)
    BY <1>4, <2>5 DEF Ends, Ended
  <2>6. CASE Deleted(r)
    BY <1>4, <2>1, <2>6, ConstantsAssumption DEF Deleted, KeptInv
  <2> QED BY <2>2, <2>3, <2>4, <2>5, <2>6, JobStep
<1>5. ASSUME pc' = "release", uj'[cur'].exists, NEW h \in Hooks, list'[h].status \in Ended
      PROVE  <<h, list'[h].status>> \in uj'[cur'].tracker
  <2>1. cur' \in UpgradeJobs /\ uj[cur'].exists
    BY <1>5, NothingForgotten DEF Types, WorkerTypes
  <2>2. list'[h].status \in Statuses /\ list' \in [Hooks -> Job]
    BY <1>5, Distinct DEF Types, WorkerTypes
  <2>3. <<h, list'[h].status>> \in HookStatus(list')
    BY <2>2, HookStatusOK
  <2>4. CASE pc = "release" /\ UNCHANGED <<cur, list>>
    BY <1>2, <1>5, <2>1, <2>4 DEF KeptInv
  <2>5. CASE Tracks(cur) /\ UNCHANGED cur
    <3>1. uj'[cur].tracker = CurrentAndCompleted(copy, list) /\ list' = list
      BY <2>1, <2>5 DEF Tracks, Types, ObjectTypes, UpgradeJob
    <3> QED BY <2>3, <2>5, <3>1 DEF CurrentAndCompleted
  <2>6. ASSUME NEW j \in UpgradeJobs, Begin(j) PROVE <<h, list'[h].status>> \in uj'[cur'].tracker
    <3>1. cur' = j /\ copy' = ujSeen[j] /\ Newer(j, ujSeen[j])
      BY <2>6 DEF Begin, CopyInv
    <3>2. CurrentAndCompleted(copy', list') = copy'.tracker
      BY <1>5, <2>1, <2>6, <3>1 DEF Begin, Newer
    <3>3. <<h, list'[h].status>> \in ujSeen[j].tracker
      BY <2>3, <3>1, <3>2 DEF CurrentAndCompleted
    <3>4. <<h, list'[h].status>> \in uj[cur'].tracker
      BY <1>5, <2>1, <3>1, <3>3 DEF Newer, Tracked, Ended
    <3> QED BY <1>2, <1>5, <2>1, <3>4
  <2> QED BY <1>5, <2>4, <2>5, <2>6, WorkerStep DEF Return
<1> QED BY <1>3, <1>4, <1>5 DEF KeptInv, OutcomeKept

\* No tracker gets an older status of a Job beside its end.
LEMMA OrderStep ==
  ASSUME HookInv, HookInv', OrderInv, Next PROVE OrderInv'
<1> USE DEF HookInv
<1>1. \A r \in Runs : r[1] \in UpgradeJobs /\ r[2] \in Hooks /\ r = <<r[1], r[2]>>
  BY ConstantsAssumption
<1>2. ASSUME NEW j \in UpgradeJobs
      PROVE  uj[j].tracker \subseteq Hooks \X Statuses /\ Truth(j, uj[j])
  BY DEF Types, ObjectTypes, UpgradeJob, TruthInv
\* The tracker of an UpgradeJob is changed by the status update only.
<1>3. ASSUME NEW j \in UpgradeJobs
      PROVE  \/ uj'[j].tracker \subseteq uj[j].tracker
             \/ /\ Tracks(j) /\ \A t \in uj'[j].tracker :
                     \/ t \in Tracked(uj[j])
                     \/ t \in Hooks \X Statuses /\ t[1] \in Matching(j) /\ t[2] = list[t[1]].status
  <2>1. uj[j] \in UpgradeJob
    BY DEF Types, ObjectTypes
  <2>2. CASE Tracks(j)
    <3>1. uj'[j].tracker = CurrentAndCompleted(uj[j], list) /\ cur = j /\ pc = "track"
      BY <2>1, <2>2 DEF Tracks, UpgradeJob
    <3>2. \A t \in HookStatus(list) : t \in Hooks \X Statuses /\ t[2] = list[t[1]].status
      BY HookStatusOK DEF Types, WorkerTypes
    <3>3. \A t \in HookStatus(list) : t[1] \in Matching(cur)
      BY <3>1, <3>2, NoJobFacts, Distinct DEF ListInv
    <3> QED BY <2>2, <3>1, <3>2, <3>3 DEF CurrentAndCompleted, Tracked
  <2>3. CASE FailsFor(j)
    BY <2>1, <2>3 DEF FailsFor, UpgradeJob
  <2>4. CASE Removed(j)
    BY <2>4 DEF Removed
  <2> QED BY <2>2, <2>3, <2>4, ObjectStep
<1>4. ASSUME NEW j \in UpgradeJobs, NEW t \in uj'[j].tracker, NEW u \in uj'[j].tracker, t[1] = u[1]
      PROVE  t = u
  <2>1. CASE uj'[j].tracker \subseteq uj[j].tracker
    BY <1>4, <2>1 DEF OrderInv
  <2>2. ASSUME Tracks(j), NEW v \in Tracked(uj[j]), NEW w \in Hooks \X Statuses,
               w[1] \in Matching(j), w[2] = list[w[1]].status, v[1] = w[1]
        PROVE  v = w
    <3>1. cur = j /\ pc = "track" /\ uj[cur] = uj[j]
      BY <2>2 DEF Tracks
    <3>2. list[w[1]].status # "active"
      BY <2>2, <3>1 DEF OrderInv
    <3>3. w[2] \in Ended /\ v \in Hooks \X Statuses /\ v[2] \in Ended
      BY <1>2, <2>2, <3>2, Distinct DEF Tracked
    <3>4. outcome[<<j, w[1]>>] = w[2]
      BY <2>2, <3>1, <3>3 DEF TruthInv, TruthOf
    <3>5. outcome[<<j, w[1]>>] = v[2]
      BY <1>2, <2>2, <3>3 DEF Truth, Tracked
    <3> QED BY <2>2, <3>3, <3>4, <3>5
  <2>3. CASE Tracks(j) /\ \A x \in uj'[j].tracker :
                     \/ x \in Tracked(uj[j])
                     \/ x \in Hooks \X Statuses /\ x[1] \in Matching(j) /\ x[2] = list[x[1]].status
    <3>1. CASE t \in Tracked(uj[j]) /\ u \in Tracked(uj[j])
      BY <1>4, <3>1 DEF OrderInv, Tracked
    <3>2. CASE t \in Tracked(uj[j]) /\ u \notin Tracked(uj[j])
      BY <1>4, <2>2, <2>3, <3>2
    <3>3. CASE t \notin Tracked(uj[j]) /\ u \in Tracked(uj[j])
      BY <1>4, <2>2, <2>3, <3>3
    <3>4. CASE t \notin Tracked(uj[j]) /\ u \notin Tracked(uj[j])
      BY <1>4, <2>3, <3>4
    <3> QED BY <3>1, <3>2, <3>3, <3>4
  <2> QED BY <1>3, <2>1, <2>3
\* A Job that has ended is not delivered as an active one.
<1>5. ASSUME NEW r \in Runs, outcome[r] # None, jobSeen[r].status # "active"
      PROVE  jobSeen'[r].status # "active"
  BY <1>5, CacheStep DEF TruthInv
<1>6. ASSUME NEW j \in UpgradeJobs, NEW t \in uj'[j].tracker, t[2] # "active"
      PROVE  jobSeen'[<<j, t[1]>>].status # "active"
  <2>1. CASE t \in uj[j].tracker
    <3>1. <<j, t[1]>> \in Runs /\ outcome[<<j, t[1]>>] = t[2] /\ t[2] # None
      BY <1>2, <1>6, <2>1, Distinct DEF Truth
    <3> QED BY <1>5, <1>6, <2>1, <3>1 DEF OrderInv, Tracked
  <2>2. CASE /\ Tracks(j) /\ t \in Hooks \X Statuses /\ t[1] \in Matching(j)
             /\ t[2] = list[t[1]].status
    <3>1. cur = j /\ pc = "track" /\ UNCHANGED jobSeen
      BY <2>2 DEF Tracks
    <3>2. t[2] \in Ended
      BY <1>6, <2>2, Distinct
    <3> QED BY <2>2, <3>1, <3>2 DEF OrderInv
  <2> QED BY <1>3, <1>6, <2>1, <2>2 DEF Tracked
<1>7. ASSUME pc' # "idle", NEW h \in Matching(cur'), list'[h].status \in Ended
      PROVE  jobSeen'[<<cur', h>>].status # "active"
  <2>0. <<cur', h>> \in Runs /\ h \in Hooks
    BY DEF Matching
  <2>1. CASE pc # "idle" /\ cur' = cur /\ list' = list
    <3>1. outcome[<<cur, h>>] # None
      BY <1>7, <2>1, Distinct DEF TruthInv, TruthOf, Matching
    <3> QED BY <1>5, <1>7, <2>0, <2>1, <3>1 DEF OrderInv, Matching
  <2>2. CASE /\ list' = [g \in Hooks |-> IF g \in Matching(cur') THEN jobSeen[<<cur', g>>] ELSE NoJob(0)]
             /\ UNCHANGED jobSeen
    BY <1>7, <2>0, <2>2 DEF Ended
  <2> QED BY <1>7, <2>1, <2>2, WorkerStep DEF Return, Begin, caches
<1>8. ASSUME pc' = "track", NEW t \in uj'[cur'].tracker, t[2] # "active"
      PROVE  list'[t[1]].status # "active"
  <2>0. cur' \in UpgradeJobs
    BY <1>8 DEF Types, WorkerTypes
  <2>1. CASE pc = "track" /\ cur' = cur /\ list' = list
    <3>1. t \in uj[cur].tracker
      BY <1>3, <1>8, <2>0, <2>1 DEF Tracks
    <3> QED BY <1>8, <2>1, <3>1 DEF OrderInv, Tracked
  <2>2. ASSUME NEW j \in UpgradeJobs, Begin(j) PROVE list'[t[1]].status # "active"
    <3>1. cur' = j /\ UNCHANGED uj
          /\ list' = [h \in Hooks |-> IF h \in Matching(j) THEN jobSeen[<<j, h>>] ELSE NoJob(0)]
      BY <2>2 DEF Begin, objects
    <3>2. <<j, t[1]>> \in Runs /\ t[1] \in Hooks /\ t[1] \in Matching(j)
      BY <1>1, <1>2, <1>8, <3>1 DEF Truth, Matching
    <3> QED BY <1>8, <3>1, <3>2 DEF OrderInv, Tracked
  <2> QED BY <1>8, <2>1, <2>2, WorkerStep DEF Return
<1> QED BY <1>4, <1>6, <1>7, <1>8 DEF OrderInv, Tracked

-----------------------------------------------------------------------------
(* Verdicts.                                                               *)

\* What makes the hook a reason to pass.
Good(j, h) == \/ outcome[<<j, h>>] = "complete"
              \/ outcome[<<j, h>>] = "failed" /\ h \notin Abort

\* The verdict considers every hook of the UpgradeJob.
LEMMA VerdictStep ==
  ASSUME HookInv, HookInv', VerdictInv, Next PROVE VerdictInv'
<1> USE DEF HookInv
<1>1. \A r \in Runs : outcome'[r] = outcome[r] \/ outcome[r] = None
  BY OutcomeOnce
<1>2. \A j \in UpgradeJobs : \A h \in Matching(j) : <<j, h>> \in Runs /\ h \in Hooks
  BY DEF Matching
<1>3. \A j \in UpgradeJobs : \A h \in Matching(j) : Good(j, h) => Good(j, h)'
  BY <1>1, <1>2, ConstantsAssumption DEF Good
\* A claim is made once, by a hook's UpgradeJob that has not passed.
<1>4. ASSUME NEW h \in Hooks
      PROVE  \/ claimedBy'[h] = claimedBy[h]
             \/ claimedBy[h] = None /\ claimedBy'[h] = cur /\ UNCHANGED passed
                /\ cur \in UpgradeJobs /\ h \in Matching(cur) /\ h \in RunNext
  <2>1. ASSUME NEW g \in Hooks, Claim(g)
        PROVE  \/ claimedBy'[h] = claimedBy[h]
               \/ claimedBy[h] = None /\ claimedBy'[h] = cur /\ UNCHANGED passed
                  /\ cur \in UpgradeJobs /\ h \in Matching(cur) /\ h \in RunNext
    <3>1. pc = "claim" /\ g \in todo /\ UNCHANGED passed
      BY <2>1 DEF Claim, history
    <3>2. cur \in UpgradeJobs /\ g \in Matching(cur) /\ g \in RunNext
      BY <3>1 DEF Types, WorkerTypes, ClaimInv
    <3>3. claimedBy' = claimedBy \/ (claimedBy[g] = None /\ claimedBy' = [claimedBy EXCEPT ![g] = cur])
      BY <2>1 DEF Claim, Unclaimed
    <3> QED BY <3>1, <3>2, <3>3 DEF Types, ObjectTypes
  <2>2. ASSUME ~\E g \in Hooks : Claim(g) PROVE claimedBy' = claimedBy
    BY <2>2 DEF Next, Reconcile, Environment, Begin, Track, Release, StartHooks, RunHooks, Execute,
       Decide, CallFails, Deliver, Restart, JobEnds, DeleteJob, DeleteUpgradeJob, objects
  <2> QED BY <2>1, <2>2
\* An UpgradeJob passes when all its hooks have ended well.
<1>5. ASSUME NEW j \in passed', j \notin passed
      PROVE  /\ j \in UpgradeJobs /\ UNCHANGED <<claimedBy, outcome>>
             /\ \A h \in Matching(j) : h \in RunNext => claimedBy[h] # None
             /\ \A h \in Matching(j) : h \notin RunNext \/ claimedBy[h] = j => Good(j, h)
  <2>1. CASE Decide
    <3>1. /\ j = cur /\ pc = "execute" /\ todo = {} /\ ~failed /\ ~Waits /\ ~Fails
          /\ UNCHANGED <<claimedBy, outcome>>
      BY <1>5, <2>1 DEF Decide
    <3>2. j \in UpgradeJobs /\ None \notin UpgradeJobs /\ found \subseteq Hooks \X Statuses
      BY <3>1, Distinct DEF Types, WorkerTypes
    <3>3. \A h \in Matching(j) : h \in mine \/ (h \in RunNext /\ claimedBy[h] \notin {None, j})
      BY <3>1 DEF ClaimInv
    <3>4. \A h \in mine : h \in RunNext => claimedBy[h] = j
      BY <3>1 DEF ClaimInv
    <3>5. ASSUME NEW h \in mine PROVE Good(j, h)
      <4>1. PICK s \in Statuses : <<h, s>> \in found
        BY <3>1 DEF VerdictInv
      <4>2. s # "active" /\ (s = "failed" => h \notin Abort)
        BY <3>1, <4>1 DEF Waits, Fails
      <4>3. s \in Ended
        BY <4>2, Distinct
      <4>4. outcome[<<j, h>>] = s
        BY <3>1, <4>1, <4>3 DEF TruthInv
      <4> QED BY <4>2, <4>3, <4>4 DEF Good, Ended
    <3> QED BY <3>1, <3>2, <3>3, <3>4, <3>5
  <2>2. ASSUME ~Decide PROVE passed' = passed
    BY <2>2 DEF Next, Reconcile, Environment, Begin, Track, Release, StartHooks, RunHooks, Execute,
       Claim, CallFails, Deliver, Restart, JobEnds, DeleteJob, DeleteUpgradeJob, history
  <2> QED BY <1>5, <2>1, <2>2
<1>6. ASSUME NEW j \in UpgradeJobs, j \in passed', NEW h \in Matching(j),
             (h \notin RunNext \/ claimedBy[h] = j)'
      PROVE  Good(j, h)'
  <2>1. CASE j \notin passed
    BY <1>3, <1>5, <1>6, <2>1
  <2>2. CASE j \in passed
    <3>1. h \in RunNext => claimedBy[h] # None
      BY <2>2 DEF VerdictInv
    <3>2. h \notin RunNext \/ claimedBy[h] = j
      BY <1>2, <1>4, <1>6, <3>1
    <3>3. Good(j, h)
      BY <2>2, <3>2 DEF VerdictInv, VerdictJustified, Good
    <3> QED BY <1>3, <3>3
  <2> QED BY <2>1, <2>2
<1>7. ASSUME NEW j \in UpgradeJobs, uj'[j].failed
      PROVE  \E h \in Abort \cap Matching(j) : outcome'[<<j, h>>] = "failed"
  <2>1. uj[j] \in UpgradeJob
    BY DEF Types, ObjectTypes
  <2>2. CASE uj[j].failed
    BY <1>1, <1>2, <2>2, ConstantsAssumption DEF VerdictInv, VerdictJustified
  <2>3. CASE FailsFor(j)
    <3>1. pc = "execute" /\ cur = j /\ Fails /\ UNCHANGED outcome
      BY <2>3 DEF FailsFor
    <3>2. PICK t \in found : t[2] = "failed" /\ t[1] \in Abort
      BY <3>1 DEF Fails
    <3>3. t[1] \in mine /\ outcome[<<j, t[1]>>] = "failed"
      BY <3>1, <3>2 DEF TruthInv, Ended
    <3> QED BY <3>1, <3>2, <3>3 DEF ClaimInv
  <2>4. CASE Tracks(j)
    BY <1>7, <2>1, <2>2, <2>4 DEF Tracks, UpgradeJob
  <2>5. CASE Removed(j)
    BY <1>7, <2>5 DEF Removed
  <2> QED BY <1>7, <2>2, <2>3, <2>4, <2>5, ObjectStep
<1>8. (\A j \in passed : \A h \in Matching(j) \cap RunNext : claimedBy[h] # None)'
  <2> SUFFICES ASSUME NEW j \in passed', NEW h \in Matching(j) \cap RunNext
               PROVE  claimedBy'[h] # None
    BY DEF Matching
  <2>1. claimedBy[h] # None
    BY <1>5 DEF VerdictInv
  <2> QED BY <1>4, <2>1, Distinct DEF Matching
<1>9. ASSUME pc' = "execute", ~failed', NEW h \in mine' \ todo'
      PROVE  \E s \in Statuses : <<h, s>> \in found'
  <2>1. CASE UNCHANGED <<pc, mine, todo, found, failed>>
    BY <1>9, <2>1 DEF VerdictInv
  <2>2. CASE RunHooks
    BY <1>9, <2>2 DEF RunHooks
  <2>3. ASSUME NEW g \in Hooks, Execute(g) PROVE \E s \in Statuses : <<h, s>> \in found'
    <3>1. /\ g \in todo /\ pc = "execute" /\ todo' = todo \ {g} /\ mine' = mine
          /\ found \subseteq found' /\ failed' = failed
          /\ \/ Known(g) # {} /\ Known(g) \subseteq found'
             \/ <<g, "active">> \in found'
      BY <1>9, <2>3 DEF Execute
    <3>2. CASE h # g
      BY <1>9, <3>1, <3>2 DEF VerdictInv
    <3>3. CASE h = g
      <4>1. g \in Matching(cur)
        BY <3>1, ExecuteMatching
      <4>2. \A t \in Known(g) : t \in Hooks \X Statuses /\ t[1] = g
        BY <3>1, <4>1, KnownOK
      <4> QED BY <3>1, <3>3, <4>2 DEF Statuses
    <3> QED BY <3>2, <3>3
  <2>4. ASSUME ~RunHooks, ~\E g \in Hooks : Execute(g)
        PROVE  \/ pc' # "execute" \/ failed'
               \/ UNCHANGED <<pc, mine, todo, found, failed>>
    BY <2>4 DEF Next, Reconcile, Environment, Begin, Track, Release, StartHooks, Claim, Error, Return,
       Decide, CallFails, Deliver, Restart, JobEnds, DeleteJob, DeleteUpgradeJob, worker
  <2> QED BY <1>9, <2>1, <2>2, <2>3, <2>4
<1>10. VerdictJustified'
  BY <1>6, <1>7 DEF VerdictJustified, Good, Matching
<1> QED BY <1>8, <1>9, <1>10 DEF VerdictInv

-----------------------------------------------------------------------------
(* Theorems.                                                               *)

\* All this holds before the first reconcile.
LEMMA InitInv ==
  ASSUME Init
  PROVE  /\ Types /\ ListInv /\ ClaimInv /\ CopyInv /\ TruthInv /\ GoneInv /\ KeptInv
         /\ OrderInv /\ VerdictInv
<1>1. NewUpgradeJob \in UpgradeJob /\ NewUpgradeJob.tracker = {} /\ ~NewUpgradeJob.failed
      /\ NewUpgradeJob.exists
  BY NewObjects DEF NewUpgradeJob
<1>2. /\ \A j \in UpgradeJobs : uj[j] = NewUpgradeJob /\ ujSeen[j] = NewUpgradeJob
      /\ \A r \in Runs : job[r] = NoJob(0) /\ jobSeen[r] = NoJob(0) /\ outcome[r] = None
      /\ \A h \in Hooks : claimedBy[h] = None /\ claimSeen[h] = None
      /\ pc = "idle" /\ found = {} /\ passed = {}
  BY DEF Init
<1>3. \A r \in Runs : r[1] \in UpgradeJobs
  BY ConstantsAssumption
<1>4. Types
  <2>1. ObjectTypes
    BY NewObjects DEF Init, ObjectTypes
  <2>2. WorkerTypes
    BY NewObjects DEF Init, WorkerTypes
  <2>3. MaxFaults \in 0..MaxFaults
    BY ConstantsAssumption
  <2>4. OtherTypes
    BY <2>3 DEF Init, OtherTypes
  <2> QED BY <2>1, <2>2, <2>4 DEF Types
<1>5. ListInv /\ ClaimInv /\ CopyInv
  BY <1>1, <1>2, NoJobFacts DEF ListInv, ClaimInv, CopyInv, Newer, Tracked
<1>6. TruthInv /\ GoneInv
  BY <1>1, <1>2, NoJobFacts, Distinct
     DEF TruthInv, GoneInv, RunsOnce, Truth, TruthOf
<1>7. KeptInv /\ OrderInv /\ VerdictInv
  BY <1>1, <1>2, <1>3, NoJobFacts, ConstantsAssumption
     DEF KeptInv, OutcomeKept, OrderInv, VerdictInv, VerdictJustified, Tracked
<1> QED BY <1>4, <1>5, <1>6, <1>7

\* What holds whenever Jobs are deleted.
BaseInv == Types /\ ListInv /\ ClaimInv

\* No step violates the types or the claims.
LEMMA BaseStep == BaseInv /\ [Next]_vars => BaseInv'
<1> SUFFICES ASSUME BaseInv, [Next]_vars PROVE BaseInv'
  OBVIOUS
<1>1. CASE Next
  BY <1>1, TypesStep, ListStep, ClaimStep DEF BaseInv
<1>2. CASE UNCHANGED vars
  BY <1>2 DEF vars, BaseInv, Types, ObjectTypes, WorkerTypes, OtherTypes, ListInv, ClaimInv,
     Matching, Finalizers
<1> QED BY <1>1, <1>2

\* A hook with run: Next runs for one UpgradeJob, whatever is deleted and when:
\* executeHooks claims it at the API server before it creates the Job.
THEOREM NextRunsOnce == Spec => []RunsForNext
<1>1. Init => BaseInv
  BY InitInv DEF BaseInv
<1>2. BaseInv => RunsForNext
  <2> SUFFICES ASSUME BaseInv, NEW h \in RunNext, NEW i \in UpgradeJobs, NEW j \in UpgradeJobs,
                      {<<i, h>>, <<j, h>>} \subseteq {r \in Runs : job[r].uid > 0}
               PROVE  i = j
    BY DEF RunsForNext
  <2>1. claimedBy[h] = i /\ claimedBy[h] = j
    BY DEF BaseInv, ClaimInv
  <2> QED BY <2>1
<1> QED BY <1>1, <1>2, BaseStep, PTL DEF Spec

\* What holds if no Job is deleted before it is settled.
FullInv == HookInv /\ KeptInv /\ OrderInv /\ VerdictInv

\* No step violates any part of the invariant.
LEMMA FullStep ==
  ASSUME ~EarlyDeletion PROVE FullInv /\ [Next]_vars => FullInv'
<1> SUFFICES ASSUME FullInv, [Next]_vars PROVE FullInv'
  OBVIOUS
<1>1. CASE Next
  <2>1. BaseInv'
    BY <1>1, BaseStep DEF FullInv, HookInv, BaseInv
  <2>2. HookInv'
    BY <1>1, <2>1, CopyStep, TruthStep, GoneStep DEF FullInv, HookInv, BaseInv
  <2> QED BY <1>1, <2>2, KeptStep, OrderStep, VerdictStep DEF FullInv
<1>2. CASE UNCHANGED vars
  <2>1. BaseInv'
    BY <1>2, BaseStep DEF FullInv, HookInv, BaseInv
  <2>2. CopyInv' /\ TruthInv' /\ GoneInv'
    BY <1>2 DEF vars, FullInv, HookInv, CopyInv, TruthInv, GoneInv, Newer, Tracked, Truth, TruthOf,
       Settled, RunsOnce, Matching
  <2>3. KeptInv' /\ OrderInv' /\ VerdictInv'
    BY <1>2 DEF vars, FullInv, KeptInv, OutcomeKept, OrderInv, VerdictInv, VerdictJustified,
       Tracked, Matching
  <2> QED BY <2>1, <2>2, <2>3 DEF FullInv, HookInv, BaseInv
<1> QED BY <1>1, <1>2

\* The invariant, for behaviours.
LEMMA FullInvariant == ASSUME ~EarlyDeletion PROVE Spec => []FullInv
<1>1. Init => FullInv
  BY InitInv DEF FullInv, HookInv
<1> QED BY <1>1, FullStep, PTL DEF Spec

\* Every variable has its type, and trackHookJobs never writes two statuses of
\* one hook into a tracker: an older status of a Job, read from a cache that
\* lags behind, is not tracked after the end of the Job.
THEOREM TrackersAreFunctions == ASSUME ~EarlyDeletion PROVE Spec => []TypeOK
<1>1. FullInv => TypeOK
  <2>1. Ended \cup {None} \subseteq Statuses \cup {None}
    BY Distinct
  <2> QED BY <2>1 DEF FullInv, HookInv, OrderInv, Types, ObjectTypes, WorkerTypes, OtherTypes, TypeOK
<1> QED BY <1>1, FullInvariant, PTL

\* executeHooks creates at most one Job for a hook and an UpgradeJob.
THEOREM HooksRunOnce == ASSUME ~EarlyDeletion PROVE Spec => []RunsOnce
<1>1. FullInv => RunsOnce
  BY DEF FullInv, HookInv, GoneInv
<1> QED BY <1>1, FullInvariant, PTL

\* The finalizer of a Job that has ended is not removed before its outcome is
\* in the status of its UpgradeJob, where it stays.
THEOREM OutcomesAreKept == ASSUME ~EarlyDeletion PROVE Spec => []OutcomeKept
<1>1. FullInv => OutcomeKept
  BY DEF FullInv, KeptInv
<1> QED BY <1>1, FullInvariant, PTL

\* The verdict of executeHooks is the one the Jobs justify.
THEOREM VerdictsAreJustified == ASSUME ~EarlyDeletion PROVE Spec => []VerdictJustified
<1>1. FullInv => VerdictJustified
  BY DEF FullInv, VerdictInv
<1> QED BY <1>1, FullInvariant, PTL

=============================================================================
