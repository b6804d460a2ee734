----------------------------- MODULE SpokeCleanup -----------------------------
(***************************************************************************)
(* Removing the GitOps addon from a managed cluster.  The cleanup Job,     *)
(* which runs before the addon's ManifestWork goes, pauses and scales down *)
(* the addon agent, waits for the operator to finalize the ArgoCD CR, and  *)
(* removes the operator and then its own rights.  Meanwhile the work agent *)
(* restores the addon agent, whose start clears the pause, and a policy    *)
(* may make the ArgoCD CR again.  Both ways of installation: a labelled    *)
(* Subscription (Olm) or the labelled objects of the embedded chart.       *)
(***************************************************************************)
EXTENDS Naturals

CONSTANTS
  Objects,      \* objects of the embedded chart
  Operator,     \* the one that runs the operator
  Modes,        \* subset of {"olm", "embedded"}
  MaxRetries,   \* backoffLimit of the Job
  MaxRestores,  \* bound: times the work agent restores the agent while the Job exists
  MaxReinstalls,  \* bound: times the addon is enabled again
  MaxFaults     \* bound: failed calls and crashes of the Job

ASSUME CleanupAssumption ==
  /\ Operator \in Objects /\ Modes \subseteq {"olm", "embedded"}
  /\ MaxRetries \in Nat /\ MaxRestores \in Nat /\ MaxReinstalls \in Nat /\ MaxFaults \in Nat

VARIABLES
  mode,      \* is this a cluster with OLM?
  work,      \* the addon's ManifestWork is there
  dep,       \* the addon agent's Deployment: gone, up or scaled down
  rbac,      \* the rights of the account of agent and Job: none, the Job's, or all
  marker,    \* the pause marker: none, owned by the Deployment, or an orphan
  cached,    \* what the agent's cache shows: is there a marker?
  objs,      \* the chart's objects: absent, ours or a user's without label
  sub, csv,  \* our Subscription, and its CSV
  cr,        \* the ArgoCD CR: absent, bare, managed (finalizer) or deleting
  policy,    \* the configuration policy that makes the ArgoCD CR
  queued,    \* an enforcement that outlives the policy
  pod,       \* the addon agent
  job,       \* the cleanup Job
  recreated, \* history: the agent wrote while the Job deleted or later
  unreported, \* history: a call of the Job's attempt failed that the code does not count
  retries, restores, reinstalls, faults   \* consumption of the bounds

cluster == <<marker, objs, sub, csv, cr>>
env     == <<mode, work, policy, queued>>
bounds  == <<retries, restores, reinstalls, faults>>
vars == <<cluster, env, dep, rbac, cached, pod, job, recreated, unreported, bounds>>

JobPCs == {"none", "marker", "scale", "argocd", "stable", "subs", "csvs", "first", "again",
           "second", "orphan", "rbac", "exit1", "failed", "succeeded"}
NoPod == [pc |-> "gone", todo |-> {}]
Job(pc) == [pc |-> pc, errs |-> FALSE, found |-> FALSE]
NoJob == Job("none")

OperatorUp == csv \/ objs[Operator] # "absent"
Ours == {o \in Objects : objs[o] = "ours"}
Running == job.pc \notin {"none", "failed", "succeeded"}

Init ==
  /\ mode \in Modes /\ work = TRUE /\ dep \in {"gone", "up"} /\ rbac = "all"
  /\ marker = "none" /\ cached = FALSE
  /\ objs \in [Objects -> {"absent", "users"}] /\ (mode = "olm" => objs[Operator] = "absent")
  /\ sub = FALSE /\ csv = FALSE /\ cr = "absent" /\ policy = TRUE /\ queued = FALSE
  /\ pod = NoPod /\ job = NoJob /\ recreated = FALSE /\ unreported = FALSE
  /\ retries = 0 /\ restores = 0 /\ reinstalls = 0 /\ faults = 0

Fault   == faults < MaxFaults /\ faults' = faults + 1
Succeed == UNCHANGED faults

-----------------------------------------------------------------------------
(* The hub, the work agent, OLM, the operator and the policy. *)

\* Everything of the addon's ManifestWork, again, while it is there.
WorkApplies ==
  /\ work /\ (dep # "up" \/ rbac # "all")
  /\ IF job.pc = "none" THEN UNCHANGED restores
     ELSE restores < MaxRestores /\ restores' = restores + 1
  /\ dep' = "up" /\ rbac' = "all"
  /\ UNCHANGED <<cluster, env, cached, pod, job, recreated, unreported>>
  /\ UNCHANGED <<retries, reinstalls, faults>>

\* The ManifestWork of the Job has a role of its own, with fewer rights.
JobWorkApplies ==
  /\ Running /\ rbac = "none" /\ rbac' = "job"
  /\ UNCHANGED <<cluster, env, dep, cached, pod, job, recreated, unreported, bounds>>

DisableAddon ==
  /\ work /\ job.pc = "none"
  /\ job' = Job("marker") /\ recreated' = FALSE /\ unreported' = FALSE /\ retries' = 0
  /\ restores' = 0
  /\ UNCHANGED <<cluster, env, dep, rbac, cached, pod, reinstalls, faults>>

\* The policy of the cluster goes with the addon; its last enforcement may still come.
PolicyGoes ==
  /\ policy /\ job.pc # "none"
  /\ policy' = FALSE /\ queued' \in BOOLEAN
  /\ UNCHANGED <<cluster, mode, work, dep, rbac, cached, pod, job, recreated, unreported, bounds>>

PolicyEnforces ==
  /\ policy \/ queued
  /\ cr' = IF cr = "absent" THEN "bare" ELSE cr
  /\ queued' = FALSE /\ <<cr', queued'>> # <<cr, queued>>
  /\ policy => OperatorUp
  /\ UNCHANGED <<marker, objs, sub, csv, mode, work, policy, dep, rbac, cached, pod, job,
                 recreated, unreported, bounds>>

\* When the Job has succeeded the ManifestWorks go, and an owned marker is collected.
WorkGoes ==
  /\ work /\ job.pc = "succeeded"
  /\ work' = FALSE /\ dep' = "gone" /\ rbac' = "none"
  /\ marker' = IF marker = "owned" THEN "none" ELSE marker
  /\ UNCHANGED <<objs, sub, csv, cr, mode, policy, queued, cached, pod, job, recreated,
                 unreported, bounds>>

EnableAddon ==
  /\ ~work /\ ~policy /\ pod.pc = "gone" /\ reinstalls < MaxReinstalls
  /\ work' = TRUE /\ policy' = TRUE /\ job' = NoJob /\ reinstalls' = reinstalls + 1
  /\ UNCHANGED <<cluster, mode, queued, dep, rbac, cached, pod, recreated, unreported,
                 retries, restores, faults>>

\* OLM installs what a Subscription asks for, and the operator adds and serves a finalizer.
Olm ==
  /\ sub /\ ~csv /\ csv' = TRUE
  /\ UNCHANGED <<marker, objs, sub, cr, env, dep, rbac, cached, pod, job, recreated, unreported,
                 bounds>>
OperatorActs ==
  /\ OperatorUp /\ cr \in {"bare", "deleting"}
  /\ cr' = IF cr = "bare" THEN "managed" ELSE "absent"
  /\ UNCHANGED <<marker, objs, sub, csv, env, dep, rbac, cached, pod, job, recreated, unreported,
                 bounds>>

External == \/ WorkApplies \/ JobWorkApplies \/ PolicyGoes \/ PolicyEnforces \/ WorkGoes
            \/ Olm \/ OperatorActs

-----------------------------------------------------------------------------
(* The addon agent. *)

PodUnchanged == UNCHANGED <<env, dep, rbac, job, unreported, retries, restores, reinstalls>>
Wrote == recreated' = (recreated \/ job.pc # "none")

PodStarts ==
  /\ dep = "up" /\ pod.pc = "gone"
  /\ pod' = [pc |-> "start", todo |-> {}] /\ cached' = (marker # "none")
  /\ UNCHANGED <<cluster, recreated, faults>> /\ PodUnchanged

PodEnds ==
  /\ dep # "up" /\ pod.pc # "gone"
  /\ pod' = NoPod /\ cached' = FALSE
  /\ UNCHANGED <<cluster, recreated, faults>> /\ PodUnchanged

CacheSyncs ==
  /\ pod.pc # "gone" /\ cached # (marker # "none")
  /\ cached' = (marker # "none")
  /\ UNCHANGED <<cluster, pod, recreated, faults>> /\ PodUnchanged

\* [Mutant] The marker is looked up in the cache, which has not synced at the start.
MarkerCached == FALSE

\* The start reads past the cache, and counts any marker as stale.
MarkerFound == marker # "none"

ClearStalePauseMarker ==
  /\ pod.pc = "start" /\ dep = "up"
  /\ \/ rbac # "none" /\ Succeed /\ marker' = IF MarkerFound THEN "none" ELSE marker
     \/ (IF rbac # "none" THEN Fault ELSE Succeed) /\ UNCHANGED marker
  /\ pod' = [pod EXCEPT !.pc = "idle"]
  /\ UNCHANGED <<objs, sub, csv, cr, cached, recreated>> /\ PodUnchanged

\* With OLM the chart is not used.
Manifests == IF mode = "olm" THEN {} ELSE Objects

\* A pass: paused, it does nothing; a marker that cannot be read counts as there.
PassBegins ==
  /\ pod.pc = "idle" /\ rbac # "none" /\ ~cached
  /\ mode = "olm" => ~sub                  \* any other pass changes nothing (OlmInstall)
  /\ pod' = [pc |-> "apply", todo |-> Manifests]
  /\ UNCHANGED <<cluster, cached, recreated, faults>> /\ PodUnchanged

\* An object that exists without the label is somebody else's.
Applicable(o) == objs[o] # "users"

\* applyManifest looks at the marker again before every object.
ApplyManifest(o) ==
  /\ pod.pc = "apply" /\ o \in pod.todo
  /\ pod' = [pod EXCEPT !.todo = @ \ {o}]
  /\ IF rbac = "all" /\ ~cached /\ Applicable(o) /\ objs[o] # "ours"
     THEN objs' = [objs EXCEPT ![o] = "ours"] /\ Wrote
     ELSE UNCHANGED <<objs, recreated>>
  /\ Succeed
  /\ UNCHANGED <<marker, sub, csv, cr, cached>> /\ PodUnchanged

PassEnds ==
  /\ pod.pc = "apply" /\ pod.todo = {}
  /\ pod' = [pod EXCEPT !.pc = "idle"]
  /\ IF mode = "olm" /\ rbac = "all"
     THEN sub' = TRUE /\ (IF sub THEN UNCHANGED recreated ELSE Wrote)
     ELSE UNCHANGED <<sub, recreated>>
  /\ Succeed
  /\ UNCHANGED <<marker, objs, csv, cr, cached>> /\ PodUnchanged

Applies == \E o \in Objects : ApplyManifest(o)
Agent == PodStarts \/ PodEnds \/ ClearStalePauseMarker \/ PassBegins \/ PassEnds \/ Applies

-----------------------------------------------------------------------------
(* The cleanup Job: uninstallOnManagedCluster. *)

JobUnchanged == UNCHANGED <<env, cached, pod, recreated, retries, restores, reinstalls>>
Done == rbac # "none" /\ Succeed /\ UNCHANGED unreported
FailedUnless(allowed) == (IF allowed THEN Fault ELSE Succeed) /\ UNCHANGED unreported
Failed == FailedUnless(rbac # "none")
FailedUnreported == (IF rbac # "none" THEN Fault ELSE Succeed) /\ unreported' = TRUE
Go(pc) == job' = [job EXCEPT !.pc = pc]
GoWithError(pc) == job' = [job EXCEPT !.pc = pc, !.errs = TRUE]

\* An existing marker is kept as it is.
CreatePauseMarker ==
  /\ job.pc = "marker"
  /\ \/ /\ Done /\ Go("scale")
        /\ marker' = IF marker # "none" THEN marker ELSE IF dep = "gone" THEN "orphan" ELSE "owned"
     \/ Failed /\ GoWithError("scale") /\ UNCHANGED marker
  /\ UNCHANGED <<objs, sub, csv, cr, dep, rbac>> /\ JobUnchanged

\* The Job's own role may not update the Deployment.
ScaleDown(from, to) ==
  /\ job.pc = from /\ Go(to)
  /\ \/ rbac = "all" /\ Done /\ dep' = IF dep = "up" THEN "down" ELSE dep
     \/ FailedUnless(rbac = "all") /\ UNCHANGED dep
  /\ UNCHANGED <<cluster, rbac>> /\ JobUnchanged

\* List the labelled ArgoCD CRs and delete them, until there is none.
DeleteArgoCD ==
  /\ job.pc = "argocd"
  /\ \/ Done /\ cr = "absent" /\ Go("stable") /\ UNCHANGED cr
     \/ /\ Done /\ cr # "absent"
        /\ cr' = IF cr = "bare" THEN "absent" ELSE "deleting"
        /\ UNCHANGED job
     \/ Failed /\ UNCHANGED <<cr, job>>
  /\ UNCHANGED <<marker, objs, sub, csv, dep, rbac>> /\ JobUnchanged

\* [Mutant] The first empty list is believed.
AtOnce == TRUE

\* [Mutant] The Job goes on when no addon agent is left, instead of after a while.
ElapsedAndAgentGone == ~policy /\ ~queued /\ pod.pc = "gone" /\ dep # "up"

\* Fifteen seconds, which outlast what a policy still has to enforce.
Elapsed == ~policy /\ ~queued

ArgoCDStable ==
  /\ job.pc = "stable"
  /\ \/ Done /\ cr # "absent" /\ Go("argocd")
     \/ Done /\ cr = "absent" /\ Elapsed /\ Go("subs")
     \/ Failed /\ Go("argocd")
  /\ UNCHANGED <<cluster, dep, rbac>> /\ JobUnchanged

\* A labelled Subscription means OLM, whether or not it could be deleted.
DeleteSubscriptions ==
  /\ job.pc = "subs"
  /\ \/ Done /\ job' = [job EXCEPT !.pc = "csvs", !.found = @ \/ sub] /\ sub' = FALSE
     \/ Failed /\ GoWithError("csvs") /\ UNCHANGED sub
     \/ /\ rbac # "none" /\ sub /\ FailedUnreported /\ UNCHANGED sub
        /\ job' = [job EXCEPT !.pc = "csvs", !.found = TRUE]
  /\ UNCHANGED <<marker, objs, csv, cr, dep, rbac>> /\ JobUnchanged

AfterCSVs == IF job.found THEN "orphan" ELSE "first"

\* The CSVs our Subscriptions installed are deleted first, then the sweep takes those that no
\* Subscription names any more, and logs what it could not check or delete.  The webhook of
\* the CRD is patched last, which the Job's own role does not allow.
DeleteCSVs ==
  /\ job.pc = "csvs"
  /\ \/ Done /\ csv' = FALSE /\ IF rbac = "all" THEN Go(AfterCSVs) ELSE GoWithError(AfterCSVs)
     \/ Failed /\ GoWithError(AfterCSVs) /\ (UNCHANGED csv \/ (rbac # "none" /\ csv' = FALSE))
     \/ rbac = "all" /\ FailedUnreported /\ Go(AfterCSVs) /\ UNCHANGED csv
  /\ UNCHANGED <<marker, objs, sub, cr, dep, rbac>> /\ JobUnchanged

\* Only what carries the label is listed.
Labelled(o) == objs[o] = "ours"

DeleteObject(o) ==
  /\ job.pc \in {"first", "second"} /\ Labelled(o)
  /\ Done /\ objs' = [objs EXCEPT ![o] = "absent"]
  /\ UNCHANGED <<marker, sub, csv, cr, dep, rbac, job>> /\ JobUnchanged

\* [Mutant] What is left after the first pass is only logged, as after the second.
FirstPassLogged(pc) == Go(pc)
FirstPassError(pc) == GoWithError(pc)

\* A pass ends when nothing is listed, or by its time-out, however fast objects come back.
\* What is left after the first is an error; a list that fails then counts as empty.
FirstPassEnds ==
  /\ job.pc = "first"
  /\ \/ Done /\ Ours = {} /\ Go("again")
     \/ Done /\ Ours # {} /\ FirstPassError("again")
     \/ FailedUnreported /\ Go("again")
  /\ UNCHANGED <<cluster, dep, rbac>> /\ JobUnchanged

SecondPassEnds ==
  /\ job.pc = "second" /\ Go("orphan")
  /\ Done \/ Failed
  /\ UNCHANGED <<cluster, dep, rbac>> /\ JobUnchanged

DeleteOrphanedPauseMarker ==
  /\ job.pc = "orphan" /\ Go("rbac")
  /\ \/ Done /\ marker' = IF marker = "orphan" THEN "none" ELSE marker
     \/ Failed /\ UNCHANGED marker
  /\ UNCHANGED <<objs, sub, csv, cr, dep, rbac>> /\ JobUnchanged

\* The rights go in any case, best effort, and the exit code tells of errors.
DeleteRBAC ==
  /\ job.pc = "rbac"
  /\ \/ Done /\ rbac' = "none"
     \/ Failed /\ rbac' \in IF rbac = "all" THEN {"all", "job"} ELSE {rbac}
  /\ job' = IF job.errs THEN Job("exit1") ELSE Job("succeeded")
  /\ UNCHANGED <<cluster, dep>> /\ JobUnchanged

\* A failed pod is replaced by another that begins from the start, a few times.
Retry ==
  /\ job.pc = "exit1"
  /\ IF retries < MaxRetries
     THEN job' = Job("marker") /\ retries' = retries + 1
     ELSE job' = Job("failed") /\ UNCHANGED retries
  /\ unreported' = FALSE
  /\ UNCHANGED <<cluster, env, dep, rbac, cached, pod, recreated, restores, reinstalls, faults>>

Cleanup == \/ CreatePauseMarker \/ ScaleDown("scale", "argocd") \/ DeleteArgoCD \/ ArgoCDStable
           \/ DeleteSubscriptions \/ DeleteCSVs \/ FirstPassEnds \/ ScaleDown("again", "second")
           \/ SecondPassEnds \/ DeleteOrphanedPauseMarker \/ DeleteRBAC \/ Retry
           \/ \E o \in Objects : DeleteObject(o)

Crash ==
  /\ Running /\ job.pc # "exit1" /\ Fault
  /\ job' = Job("exit1") /\ UNCHANGED unreported
  /\ UNCHANGED <<cluster, dep, rbac>> /\ JobUnchanged

\* After ten minutes Kubernetes ends the Job wherever it is, with all its retries.
DeadlineExceeded ==
  /\ Running
  /\ job' = Job("failed")
  /\ UNCHANGED <<cluster, env, dep, rbac, cached, pod, recreated, unreported, bounds>>

Next == \/ DisableAddon \/ EnableAddon \/ External \/ CacheSyncs \/ Agent \/ Cleanup
        \/ Crash \/ DeadlineExceeded

Spec == Init /\ [][Next]_vars

\* Everybody goes on, and a timer ends a pass; a deletion of the addon and its return are free
\* to happen or not, and the Job is not left to its deadline.
FairSpec == /\ Spec /\ WF_vars(WorkApplies) /\ WF_vars(JobWorkApplies) /\ WF_vars(PolicyGoes)
            /\ WF_vars(PolicyEnforces) /\ WF_vars(WorkGoes) /\ WF_vars(Olm)
            /\ WF_vars(OperatorActs) /\ WF_vars(CacheSyncs) /\ WF_vars(PodStarts)
            /\ WF_vars(PodEnds) /\ WF_vars(ClearStalePauseMarker) /\ WF_vars(PassBegins)
            /\ WF_vars(PassEnds) /\ WF_vars(Applies) /\ WF_vars(Cleanup)
            /\ SF_vars(FirstPassEnds) /\ SF_vars(SecondPassEnds)   \* timers

-----------------------------------------------------------------------------
(* Properties. *)

ClusterOK ==
  /\ mode \in {"olm", "embedded"} /\ work \in BOOLEAN /\ dep \in {"gone", "up", "down"}
  /\ rbac \in {"none", "job", "all"} /\ cached \in BOOLEAN
  /\ marker \in {"none", "owned", "orphan"}
  /\ objs \in [Objects -> {"absent", "ours", "users"}] /\ sub \in BOOLEAN /\ csv \in BOOLEAN
  /\ cr \in {"absent", "bare", "managed", "deleting"}
  /\ policy \in BOOLEAN /\ queued \in BOOLEAN

ProgramsOK ==
  /\ pod \in [pc : {"gone", "start", "idle", "apply"}, todo : SUBSET Objects]
  /\ job \in [pc : JobPCs, errs : BOOLEAN, found : BOOLEAN]
  /\ recreated \in BOOLEAN /\ unreported \in BOOLEAN

BoundsOK ==
  /\ retries \in 0..MaxRetries /\ restores \in 0..MaxRestores
  /\ reinstalls \in 0..MaxReinstalls /\ faults \in 0..MaxFaults

\* Only the Deployment owns a marker; what is absent with OLM, or without it, stays absent.
ModeOK ==
  /\ marker = "owned" => dep # "gone"
  /\ mode = "olm" => Ours = {} /\ pod.todo = {}
  /\ mode = "embedded" => ~sub /\ ~csv /\ ~job.found

\* The variables have their types.
TypeOK == ClusterOK /\ ProgramsOK /\ BoundsOK /\ ModeOK

\* The operator has to finalize the ArgoCD CR: the Job does not take it away before.
OperatorOutlivesArgoCD ==
  [][(job.pc \in {"csvs", "first", "second"} /\ OperatorUp /\ ~OperatorUp')
     => cr \notin {"managed", "deleting"}]_vars

\* What a user installed without the label is neither adopted by the agent nor removed.
UsersUntouched == [][\A o \in Objects : objs[o] = "users" => objs'[o] = "users"]_vars

Clean == ~sub /\ ~csv /\ Ours = {}

\* A Job that reports success has removed what the addon installed, unless a
\* failed call went unreported or a restored agent wrote behind it.
SuccessMeansClean == job.pc = "succeeded" => Clean \/ unreported \/ recreated

\* The Job comes to an end without its deadline, past policies that make the CR again and
\* agents that come back.
CleanupEnds == []<>~Running

\* One failed call does not leave the addon paused for good once it is enabled again.
AgentResumes == <>[](work /\ job.pc = "none" => \/ sub
                                               \/ \A o \in Objects : objs[o] # "absent")
==============================================================================
