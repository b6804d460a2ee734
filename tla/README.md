# Multicloud Integrations: specifications

TLA+ models of the hub controllers and the managed-cluster agents of
multicloud-integrations, the program that connects Open Cluster Management (OCM)
to Argo CD: it registers managed clusters as Argo CD clusters (GitOpsCluster),
carries Argo CD Applications to the clusters that pull them (ManifestWorks), brings
their status back, and installs and maintains Argo CD on managed clusters (the
GitOps addon).  Source paths are relative to the repository root, and those of the
tables to `pkg/controller/` or to the root of a program.

| Model | What of the system | Proofs | Runs |
|---|---|---|---|
| `ClusterSecrets` | the GitOpsCluster reconcile loop and the import of clusters | `ClusterSecretsProofs` | `import_converges`, `two_owners` |
| `PullModel` | the propagation controller, overlapping pods, the start-up sweep | `PullModelProofs` | `pull_two_pods`, `pull_one_pod`, `pull_rolling` |
| `StatusReports` | resource sync, status aggregation and the Application status controller | `StatusReportsProofs` | `reports_follow_feed`, `reports_converge` |
| `StatusFeed` | the abstract promise `StatusReports` implements | | |
| `MaestroPull` | propagation, overlapping pods, and aggregation over Maestro | `MaestroPullProofs` | `maestro_pull` |
| `Rollout` | the abstract promise `PullModel` and `MaestroPull` implement, with one pod at a time | | |
| `OlmInstall` | the addon agent on OpenShift: Subscription, migration, recoveries | `OlmInstallProofs` | `olm_install` |
| `SpokeCleanup` | the addon agent elsewhere, the pause marker, the cleanup Job | `SpokeCleanupProofs` | `spoke_cleanup` |
| `AddonImages` | the agent's image: addon management against the image registry controller | `AddonImagesProofs` | `addon_images`, `left_mirrored` |

Each `MC...` module instantiates the model of its name for TLC.

## 1. Inventory

Every controller is a controller-runtime manager with a work queue, or a ticker.  All
of them keep their state in the API server (hub or managed cluster) and nearly nothing
in memory, so what is hard is always the same: a reconcile is a *sequence* of reads and
writes, other actors write between two of them, any call may fail, events are filtered
or missed, and the pod may die in the middle.

| Component | Code | State | Operations | Interaction |
|---|---|---|---|---|
| GitOpsCluster reconcile loop | `gitopscluster/gitopscluster_controller.go` | GitOpsCluster status and conditions; per pass an orphan list in memory | one pass over *all* GitOpsClusters for any event, orphan sweep, requeue | reads placements, ManagedClusters; calls every other part of the package |
| Cluster secret import | `import_clusters.go` | Argo CD cluster secrets on the hub | create, replace, rename, de-label, delete, relabel | reads service account tokens, proxy, Applications; Argo CD reads the secrets |
| Agent cluster secrets | `argocd_agent_clusters.go` | secret `cluster-<name>` | write, remove blank secrets | needs CA and server address |
| Placement and server discovery | `server_discovery.go` | none | resolve PlacementDecisions to ManagedClusters, find the principal's address | |
| Agent certificates | `argocd_agent_certificates.go` | CA, principal and resource-proxy TLS secrets | create, rotate when SANs or CA changed | route or load balancer host names |
| Addon management, templates, policy | `addon_management.go`, `addon_template_management.go`, `argocd_policy.go`, `policy_template.go` | ManagedClusterAddOn, AddOnDeploymentConfig, AddOnTemplate, Policy | create, merge, delete for clusters that left | addon framework and policy controllers act on them |
| Hub CA propagation, RBAC, redis and JWT secrets | `propagate_hub_ca.go`, `rbac_management.go`, `secret_management.go`, `olm_subscription.go` | ManifestWorks, roles, secrets | create if missing | |
| Agent version heal | `agent_version_heal.go` | image versions in configurations, policies and templates | read, edit, update | users edit the same objects |
| Image registry controller | `imageregistry_controller.go` | registry override and ownership annotations on AddOnDeploymentConfig | apply, revert | users and addon management write the same object |
| GitOps addon agent | `gitopsaddon/*.go` | Argo CD installation on the managed cluster, pause marker | install, migrate, recover, pre-delete cleanup job | OLM, the operator, a policy; the work agent restores the agent while it cleans up |
| Spoke secret controller | `gitopsaddon/secret_controller.go` | copied secrets | copy, remove | |
| Propagation controller | `propagation-controller/application/application_controller.go`, `helper.go`, `pull_model_disable.go`, `pkg/pullmodelconfig` | ManifestWorks, the hub Application's operation and finalizer, the configuration | wrap, clear operation, delete, start-up sweep | work agent, ApplicationSet controller, second pod in a rolling restart |
| Application status controller | `application_status_controller.go` | hub Application status | two updates from the conditions of a report | propagation controller writes the same object |
| GitOps resource sync, status aggregation | `gitopssyncresc`, `multiclusterstatusaggregation` | files in a shared directory; MulticlusterApplicationSetReport | periodic full rebuild, per-key merge, cleanup | search API, ManifestWork feedback |
| Maestro propagation and aggregation | `maestroapplication/*.go` | ManifestWorks in Maestro, the whole hub Application | as the propagation controller, over gRPC; copy of the feedback | both Update the same Application |
| Entry points, API types, charts | `cmd/*`, `pkg/apis`, `pkg/utils` | none | | |

What makes them correct:

* **Cluster secrets.** A registered cluster does not disappear from Argo CD while its
  ManagedCluster exists; the server an Application names is not taken away from under
  it; credentials follow token rotation though watch events are missed; a cluster ends
  with one secret; secrets of deleted clusters go; the condition tells the truth.
* **Propagation**, by ManifestWorks or over Maestro. The spec reaches the cluster; an
  operation is carried before it is cleared; deletion finishes and takes the
  ManifestWork with it; no write takes another's back; with the pull model disabled
  everything stays frozen.
* **Status feedback.** The status shown is one the cluster reported; the intermediate
  `Progressing` of the two updates is not the last word; only what belongs to a missing
  ApplicationSet is removed, and all of it.
* **Addon agent.** The operator ends in the target namespace and nowhere else; what a
  user installed is spared; the agent and OLM come to rest; a cleanup that reports
  success has cleaned, does not remove the operator before the ArgoCD CR is finalized,
  and a pause marker does not stop a healthy agent for ever.
* **Images.** Two controllers settle on one image, and what mirroring did can be undone.

`PROJECT.json` lists the hazards at their lines, with the properties that cover them.

## 2. Plan

Done, in this order: `ClusterSecrets`, `PullModel`, `StatusReports` with `StatusFeed`,
`OlmInstall`, `SpokeCleanup`, `AddonImages`, `MaestroPull`, `Rollout` over both pull
models, and for each of them the proofs of section 6.  Left, in this order:

1. `GitOpsClusterStatus`: the order of the condition writes of one reconcile and the
   in-memory object that is reused after a conflict (`gitopscluster_controller.go:1425`).
2. The version heal of policies and templates: a read-modify-write of one object with
   users in between (`agent_version_heal.go:151`), and the removal of addons of clusters
   that left the placement.
3. Agent certificates: which host names and CA a certificate is for, when they move.
4. An abstract specification of the cluster secrets (registered, or being replaced, or
   gone with the ManagedCluster) that `ClusterSecrets` implements, and its refinement.

## 3. The models

In all of them each call to an API server is a step of its own unless its comment says
why two are one, a failed call is a step that consumes `faults`, a crash or restart
resets the locals of the program, and `changes` counts what users do.  Definitions
marked `[Mutant]` are plausible bugs (a label patch against the wrong base, an error that
is not returned, an update without resourceVersion): put in the place of the definition
that follows them, each violates the property that `PROJECT.json` pairs it with.

### ClusterSecrets

Models `Reconcile` of the GitOpsCluster controller and all it calls to register
clusters.  One worker (the default of controller-runtime is not changed).

*State.* `secrets[c][n]` is the Argo CD namespace: for each cluster the secrets by kind
of name (`<c>-cluster-secret`, `<c>-application-manager-cluster-secret`, the same with
a custom service account, the agent's `cluster-<c>`, any name of a user's), each with
the source of its credentials, the token version and whether it has the label by which
Argo CD finds it.  The ACM label follows from the source.  `token`, `longLived`,
`access` and `proxyService` are what the sources are read from.  `orphans` is the list
made at the start of a pass (`orphanGitOpsClusterSecretList`), `plan` what the pass
knows of the GitOpsCluster it works on (read once, so possibly stale), `pc` the call
it is at.  `absentInPass` and `steadyRefs` are history variables of the properties.

| Action | Code |
|---|---|
| `Begin`, `BeginFails`, `EndPass`, `AfterPass` | `Reconcile`: the two lists, the early returns, the requeue |
| `SkipGitOpsCluster`, `StartFails`, `Start`, `FinishGitOpsCluster` | `reconcileGitOpsCluster` up to the import, and its last status write |
| `BeginImport`, `PushSkips`, `PushBuild`, `PushWrite`, `PushWriteFails` | `AddManagedClustersToArgo`, `createClusterSecretWithFallback`, `CreateManagedClusterSecretInArgo` and their siblings |
| `CleanupOldClusterSecrets` | deletion of the long-lived secret |
| `ListOld`, `KeepOld`, `CheckOld`, `Delabel`, `DeleteOld`, `Relabel`, `FinishCluster` | `cleanupOldArgoClusterSecrets` |
| `AgentWrite`, `AgentSkips`, `DeleteBlankClusterSecrets` | `CreateArgoCDAgentClusters` |
| `BeginCleanup`, `KeepOrphan`, `CheckOrphan`, `DeleteOrphan` | `cleanupOrphanSecrets` |
| `DeleteManagedCluster` ... `EditUserSecret` | users, placement controller, service accounts (external) |
| `Crash` | restart of the pod (external) |

Events: a change *may* enqueue a request and may be missed (`MayNotify`), so that every
liveness property rests on the periodic requeue alone.

*Abstractions.* All GitOpsClusters share one Argo CD namespace.  What precedes the
import (validation, roles, addon, certificates, policy) is one step that may fail.
Secret contents are reduced to source and token version; of an in-place update only
the result counts.  The agent's certificates and the copy for local-cluster are left
out, and of the conditions all but `ClustersRegistered`.

### PullModel

Models the propagation controller from the first event of an Application to its end,
with its configuration, the sweep that freezes ManifestWorks when the pull model is
disabled, and the life of the pods.  No flag turns leader election on, so the pods of
a rolling restart overlap: `Pods` are all that ever live, `MaxAlive` how many at once.
The work queue never handles one key twice at a time, and Applications share only the
configuration, so one Application is enough.

*State.* `hub` is the Application (pull label, annotated cluster, spec version,
operation, finalizer, deletion mark, and whether the controller overwrote its
destination), `works[c]` its ManifestWork in the namespace of cluster `c`, `spoke[c]`
what the work agent delivered and the operations it ran.  Per pod: `phase`, the queued
event `dirty`, the call `pc`, the Application read (`app`) and whether what was read is
still current (`appFresh`, `workFresh`): resourceVersions reduced to what a conflict
tells.  `carried` and `frozen` are history variables.

| Action | Code |
|---|---|
| `Boot`, `ListWorks`, `SweepWork`, `EndSweep` | `main` of `cmd/propagation`, `SweepManifestWorksToReadOnly` |
| `Take` ... `GetWork` | `Reconcile` up to the ManifestWork it finds |
| `WriteGenerated` | `generateManifestWork`, create or update |
| `ClearOperation` | the `Update` that removes operation and refresh annotation |
| `DeleteWork`, `Finalize` | the branch of a deleted Application |
| `Start`, `Stop` | pods of the Deployment (external) |
| `Apply`, `Retire` | the work agent (external): applies what is not ReadOnly, never repeats an operation, removes what it delivered |
| `EditApplication` ... `EditConfig` | users, ApplicationSet controller, placement |

*Abstract specification.* `Rollout` says what a user of either pull model may rely on: a
cluster is *offered* specs the hub has asked for, never an older one than before, and
runs what it was offered; an offer is withdrawn only for an Application that is being
deleted, and one that a finalizer holds is let go only after its offer is no longer
live.  `PullModel!FollowsPlan` is `Plan!Spec` under `asked <- hub` (existence, deletion
mark, finalizer, cluster, spec version), `attached <- present`, `offered <-` state and
spec version of `works`, `runs <-` the version in `spoke`; configuration, sweep, pods,
operations and the calls of a reconcile are stutters.  It holds with one pod at a time;
what two overlapping pods do instead is in section 5.

*Abstractions.* The payload is a spec version and an operation.  The refresh annotation
is handled by the code exactly like the operation and not modelled beside it.

### StatusReports and StatusFeed

The way back, three programs in a row that know each other only through a directory and
the API server: gitopssyncresc writes one file per ApplicationSet from the search index,
multiclusterstatusaggregation merges files and ManifestWork feedback into one report per
ApplicationSet and removes what missing ApplicationSets left, and the Application
status controller copies a report's conditions into the hub Applications.

*State.* `files[a]` is absent, torn (truncated and not yet written: the code opens and
writes without renaming) or whole, `reports[a]` the conditions per cluster, `apps` and
`works` the Applications and ManifestWorks with their feedback.  A status is a health
and a version of the rest.  Each program has its `pc` and locals: the pages read so far
(`found`, and `shifted` when the index moved between two pages), the map built from the
ManifestWorks (`map`, read once per cycle), the lists left to do, the Application read
(`oldStatus`) and whether it is current (`fresh`).  `given`, `away` and `here` are history.

| Action | Code |
|---|---|
| `SyncBegin`, `SyncPage`, `SyncPagesEnd`, `WriteFile`, `WriteFileEnd`, `SyncEnd`, `SyncIdle` | `syncResources`, `getArgoAppsFromSearch`, `writeAppSetResourceFile` |
| `TickBegin`, `ListWorksFails`, `AggReport`, `AggReportsEnd` | `generateAggregation`, `generateSummary`, `generateAppSetReport` |
| `CheckFile`, `RemoveFiles`, `CheckReport`, `CheckEnd`, `DeleteWork`, `DeleteReport`, `TickEnd` | `cleanupReports`, `cleanupOrphanReports`; the name of a file loses every trailing letter of ".yaml" (`TrimRight`, `Trimmed`) |
| `StatusBegin`, `StatusGet`, `StatusFirst`, `StatusSecond`, `StatusEnd` | `Reconcile` of the status controller: the inserted `Progressing`, and the second update with the object of the first |
| `DeleteAppSet` ... `DisablePullModel`, `Resync`, `Retire` | users, work agents, search index, informers (external) |
| `Crash` | a crash of one of the three programs |

*Abstract specification.* `StatusFeed` says what an Application may show: a feedback its
own cluster gave, whole, where only the health may be the inserted `Progressing`, and
`Healthy` only after it.  `StatusReports!FollowsFeed` is `Feed!Spec` under
`shown <- apps[p].status`; every step of the three programs is one of `StatusFeed` or a
stutter.

*Abstractions.* Each ApplicationSet has at most one Application per cluster.  Counts in
the report are derived from its conditions and not kept.  Resources of a file are the
verdict of each cluster, not the search rows.

### MaestroPull

The propagation of `PullModel` over Maestro.  Nothing is frozen, but a second controller,
the aggregation, copies the feedback of all ManifestWorks to the hub every few seconds and
Updates the *whole* Application as the first one does.  The aggregation elects a leader
(`cmd/maestroaggregation/main.go:73-78`); the propagation declares `enableLeaderElection`
and never sets it (`cmd/maestropropagation/main.go:79,143`), and its Deployment in the chart
has one replica and the default rolling update, so that its pods overlap as those of
`PullModel` do: `Pods` are all that ever live, `MaxAlive` how many at once.

*State.* `hub`, `works`, `spoke` as in `PullModel`, with a status and with `inCluster`, set
when the destination has been overwritten.  Per pod of the propagation its `pc`, the queued
event, the Application it read (`app`), whether that is current (`appFresh`), and the
ManifestWork it read (`work`); for the aggregation `aPc`, `seen` and `seenFresh`.

| Action | Code |
|---|---|
| `Start`, `Stop` | pods of the Deployment |
| `Take`, `GetApplication`, `IsLocalCluster`, `CheckCluster` | `Reconcile` up to the ManifestWork; `WriteHub` has the predicate that was to drop status changes and drops nothing |
| `GetWork`, `PutWork` | the ManifestWork is read, and created or patched; another pod may come between |
| `ClearOperation` | the Update that removes the operation, and with it writes the in-cluster destination that `prepareApplicationForWorkPayload` put into the same object |
| `FindWork`, `DeleteWork`, `Finalize` | the two calls of `deleteManifestworkFromMaestro`, removal of the finalizer |
| `HouseKeeping`, `ListWorks`, `GetHubApplication`, `UpdateArgoCDAppStatus`, `EndCycle` | the aggregation's cycle |
| `EditApplication`, `DeleteApplication`, `DetachCluster`, `Agent` | users, detaching of a cluster, Maestro's agents (external) |
| `Restart` | restart of the aggregation |

*Abstract specification.* `MaestroPull!FollowsPlan` is the same `Rollout`, with
`runs <- spoke`, with one pod at a time.  The aggregation does not appear in it: that its
Updates of the whole Application are stutters or refused is part of what is shown.  Maestro
keeps the ManifestWork of a detached cluster, which `Rollout` allows.

*Abstractions.* `ToWorkPatch` of the Maestro client is external: the patch carries what
differs between the ManifestWork that was read and the new payload, and nothing when they
are the same (`Generated`).  Maestro may or may not refuse a patch made from a version that
is not the last: `PutWork` allows both.

### OlmInstall

The addon agent on an OpenShift cluster: one pass of `installViaOLMSubscription` every
minute, against OLM and the GitOps operator, from any mixture of what earlier releases,
users or a half-done removal left in the old namespaces and in the target namespace.

*State.* Per namespace `sub[n]` (owner by label, spec, the phase of its InstallPlan,
`status.currentCSV` and `status.installedCSV`), `csv[n]` and `ready[n]` (the operator's
Deployment); `webhook`, the conversion of the ArgoCD CRD; `argo`, `service`, the
operator's instances; `agent`, the pass with its locals.

| Action | Code |
|---|---|
| `StartPass`, `DeleteDefaultService`, `Prepare` | `reconcile`, `deleteDefaultGitopsServiceIfStale`, namespace and OperatorGroup |
| `MigrateRead`, `MigrateDeleteSub`, `MigrateDeleteCsv`, `SweepList`, `SweepCsv`, `SweepDelete`, `SweepEnd`, `MigrateEnd` | `migrateSubscriptionFromNamespace`, `deleteRemainingGitOpsCSVs`, `isCsvReferencedByAnySubscription` |
| `RecoverFailedPlan` | `recoverFromFailedWebhookInstallPlan` |
| `RecoverGhostRead`, `RecoverGhostCsv`, `RecoverGhostStuck`, `RecoverGhostPlan`, `RecoverGhostSub` | `recoverFromGhostCompleteInstallPlan`: its three reads and two deletions, with OLM in between |
| `PatchWebhook`, `Apply`, `Create`, `Await` | `patchCRDConversionToNone`, `createOrUpdateOLMSubscription`, `waitForOperatorReady` |
| `Resolve`, `Execute`, `NoticeMissing`, `Track`, `Deploy`, `DefaultService`, `PolicyApplies`, `CatalogMoves`, `UserRemoves` | OLM, operator, policy, catalog, users (external) |
| `WantOther`, `Restart` | another spec in the agent's environment, a new pod |

*Abstractions.* The four spec fields that are compared are one value.  Pull secrets,
service accounts and RBAC of a pass are left out: they are create-or-patch calls that
do not touch the state above.

### SpokeCleanup

Removing the addon.  The Job of the pre-delete ManifestWork (`buildCleanupJobManifest`)
pauses and scales down the agent, waits until the operator has finalized the ArgoCD CR,
removes Subscription and CSVs or the labelled objects of the embedded chart, a second
time what came back, then marker and rights.  The agent's own pass is the embedded
installation; on its start it clears a pause marker it takes for stale.

*State.* `dep`, `rbac` (the rights of the one service account: `"none"`, those of the Job's
own ClusterRole, which may neither scale the Deployment nor read the CRD, or `"all"` with the
addon's), `marker` (owned by the Deployment, or an orphan), `cached` (what
the agent's informer shows of it), `objs`, `sub`, `csv`, `cr`; `policy` and `queued`, the
enforcement that may outlive its policy; the programs `pod` and `job`.  The history variable
`unreported` records a failed call that the code only logs and does not count: the deletion
of a Subscription, a list that fails, and in the sweep of the CSVs the check for references
or the deletion (`gitopsaddon_cleanup.go:478-481`, `488-489`).  `SuccessMeansClean` says
nothing of an attempt with one.

| Action | Code |
|---|---|
| `PodStarts`, `ClearStalePauseMarker`, `PassBegins`, `ApplyManifest`, `PassEnds` | `main`, `ClearStalePauseMarker`, `reconcile`, `templateAndApplyChart`, `applyManifest` |
| `CreatePauseMarker`, `ScaleDown` | the functions of these names |
| `DeleteArgoCD`, `ArgoCDStable` | `deleteArgoCDCR`: delete until the list stays empty for a while (`Elapsed`) |
| `DeleteSubscriptions`, `DeleteCSVs`, `DeleteObject`, `FirstPassEnds`, `SecondPassEnds` | `deleteOLMResourcesInternal`, `deleteOperatorResources`, `deleteResourcesByType` |
| `DeleteOrphanedPauseMarker`, `DeleteRBAC`, `Retry` | the end of `uninstallOnManagedCluster`, and `runCleanupMode` with the Job's backoffLimit |
| `DeadlineExceeded` | `activeDeadlineSeconds`: the Job fails wherever it is |
| `DisableAddon`, `EnableAddon`, `WorkApplies`, `JobWorkApplies`, `WorkGoes`, `PolicyGoes`, `PolicyEnforces`, `Olm`, `OperatorActs`, `PodEnds`, `CacheSyncs` | addon framework, work agent, policy, OLM, operator, kubelet, informer (external) |

*A timing assumption.* `Elapsed` says that the fifteen seconds for which the list of
ArgoCD CRs must stay empty outlast what a policy that is gone still has to enforce.  The
code relies on it too; the mutant `AtOnce` shows what happens otherwise.

### AddonImages

One variable of a cluster's AddOnDeploymentConfig, the agent's image, written by two
controllers: the GitOpsCluster controller sets it to the image of the hub's principal (or
the default when that cannot be read), and the image registry controller replaces its host
by a mirror and records original and result in annotations.  Both read through a client
without cache (`cmd/gitopscluster/exec/manager.go:97,189`); what lies between a Get and its
Update is the other controller, and then the Update is a conflict.

*State.* `adc[c]` with image and the three annotations, `existing` and `items[c]`, what the
one and the other controller have read of it, `addon[c]`, `reg[r]` with finalizer and
selection, `principal`, `skip`; the passes `hub` and `worker`.  An image is a host and a
version.

| Action | Code |
|---|---|
| `HealAgentVersionDrift` | lookup of the principal's image |
| `GetAddOnDeploymentConfig`, `CreateAddOnDeploymentConfig` | `CreateAddOnDeploymentConfig`: the Get, then the three-way merge (`preserveMirroredImageValues`) and its write |
| `EnsureManagedClusterAddon` | the addon, which gets its reference |
| `Reconcile` | finalizer, branch into apply, revert and deletion |
| `FindGitOpsAddonDeploymentConfig` | `findGitOpsAddonDeploymentConfig`: the addon and the configuration it refers to |
| `ApplyImageMirroring`, `ApplyEnds` | `applyImageMirroring`, `computeUpdatedVariables`, refusal of a rival's configuration |
| `RevertClusterImageMirroring`, `ScanBegins`, `RevertScanned`, `RemoveFinalizer` | `revertImageMirroring`, `reconcileDelete` |
| `PrincipalMoves`, `ToggleSkip`, `RemoveAddon`, `EditRegistry`, `DeleteRegistry`, `Restart` | users, placements, new pods (external) |

## 4. Runs

Deadlock is not checked: once the environment's changes are used up a program whose
event queue is empty is idle, which is no error.

| Run | Instance | Shows |
|---|---|---|
| `import_converges` | one cluster, one GitOpsCluster, all modes; two changes (cluster, spec, token, Application), every event possibly missed, one failed call, one crash; fairness | `TypeOK`, `StrandedNeedsTwoFailures`, `RegisteredStays`, `ReferencedServerStays`, `SuccessMeansRegistered`, and that the periodic pass alone brings `FreshCredentials`, `OrphansForgotten`, `PushEndsUnique`, `AgentReplacesBlank` |
| `two_owners` | two GitOpsClusters of push, blank or agent mode for one cluster; decisions, clusters, access and user secrets change twice; one failed call, one failed list | `RegisteredStays` when owners of different modes share the orphan list |
| `pull_two_pods` | two pods at once, one may stop; spec, operation and configuration change twice; one failed call | `TypeOK`, `OperationCarried` |
| `pull_one_pod` | one pod, restarted once, two clusters, three changes of any kind, one failed call; fairness | `SpecDelivered`, `DeletionCompletes`, the refinement `FollowsPlan`, `FrozenUnlessFailed` |
| `reports_follow_feed` | one ApplicationSet whose name is trimmed, one cluster, two changes, one failed call, one crash | `TypeOK`, the refinement `FollowsFeed`, `WorkDeletedOnlyForMissing`, `ReportGoesLast` |
| `reports_converge` | one ApplicationSet, one cluster, one change of any kind, one failed call, one crash; fairness | `StatusConverges`, `ReportConverges`, `OrphansGo` |
| `maestro_pull` | two clusters, none or one of them the hub itself, two changes, one failed call, one restart; one propagation pod at a time; fairness | `OperationCarried`, `NothingTakenBack`, the refinement `FollowsPlan`, `SpecDelivered`, `DeletionCompletes`, `StatusArrives` |
| `olm_install` | one old namespace, two specs, two versions, every mixture of starts, two changes (spec, removal by a user, catalog), one failed call or restart; fairness | `UsersKept`, `OperatorArrives`, `OldGoes`, `Settles` |
| `spoke_cleanup` | two objects, with OLM or without; one retry of the Job, one restore, one reinstallation, one failed call or crash; fairness | `SuccessMeansClean`, `OperatorOutlivesArgoCD`, `CleanupEnds`, `AgentResumes` |
| `addon_images` | one cluster, two registries, three versions, three changes, one failed call or restart; fairness | `OriginalsAreSources`, `ImageArrives`, `Quiet` |
| `pull_rolling` | two pods, one change of the configuration | a counterexample to `FrozenStays` |
| `left_mirrored` | as `addon_images`, two versions | a counterexample to `ReleasedMeansReverted` |

*Why the bounds are enough.*  Clusters are imported one after the other and share
nothing but the orphan list, indexed by cluster; two owners of one cluster are the
interesting case and have their run.  Two changes are what a race needs that starts
from a quiet state (one to leave it, one between two steps of the repair); one failure
and one crash are the most a design that repairs itself in the next pass is expected
to survive at a time.  A second failure only makes `StrandedNeedsTwoFailures` true by
its conclusion.  In `PullModel` three changes allow an edit, a move and a deletion of
the same Application; two pods are what a Deployment's rolling update has.  In
`StatusReports` every list is a set of pairs that are worked on one by one, and pairs
meet only in the report of their ApplicationSet, whose conditions are per cluster.  In
`OlmInstall` the namespaces meet in the one pass and in the webhook of the CRD, for
which one old namespace beside the target is enough; two versions are one upgrade.  Two
registries are what a rivalry needs, and three versions let the principal move away and
on.  `spoke_cleanup` needs two objects so that one may be the operator and one outlive
it.  What does not depend on the bounds is proved (section 6).

*Where properties leave something out, on purpose.*  A configuration that cannot be
read counts as enabled and thaws one ManifestWork: `FrozenUnlessFailed` is about
behaviours without failed call.  PlacementDecisions are not watched, so an Application
that was dropped for lack of one waits for its next event: `SpecDelivered` is about
clusters that stay selected.  `FollowsPlan`, `SpecDelivered` and `DeletionCompletes`, of
`PullModel` and of `MaestroPull`, are about one pod at a time.  `NothingTakenBack` leaves out
the destination, which is overwritten with every operation that is cleared.  `CleanupEnds`
asks for more than the code needs: its fairness does not count on `DeadlineExceeded`, which
would end every Job.  `ReportConverges` says again and again, not for good, since each read
of a torn file takes the verdicts out of the report.  `OrphansGo` leaves out the files of
trimmed names, which the code never finds missing.  `StatusArrives` leaves out a cluster
of an earlier annotation that still reports, and Applications whose namespace the
payload changes.  `OperatorArrives` and `Settles` leave out an operator of a user in an
old namespace, where the agent does not look for one that runs; `OldGoes` leaves out the
default instance such an operator makes again.
`ImageArrives` leaves out a configuration still held by a registry that is not concerned
with the cluster any more.

### Fairness

* `ClusterSecrets`: the one worker is weakly fair; a request that was requeued comes back.
* `PullModel`: each pod's worker and start-up and the work agents are weakly fair, and a
  Deployment without a living pod starts one.
* `StatusReports`: tickers, the worker, the informer's resync and the work agents are
  weakly fair.  Strongly fair are the end of a write that has begun while the
  housekeeping reads reports, and the read of a report while no file is being written:
  both take an instant, and without them the two tickers could meet in the same instant
  for ever.
* `MaestroPull`: each pod's worker, the aggregation and the agents are weakly fair, and a
  Deployment without a living pod starts one; `Finalize` on a current
  version is strongly fair, since the cycles of the aggregation are seconds apart and do
  not come between read and Update of every single reconcile.
* `OlmInstall`: the agent's timer, OLM per namespace and the policy are weakly fair; OLM's
  `NoticeMissing` is strongly fair while no `Apply` is under way, so that it does not always
  fall between the two reads of one pass.
* `SpokeCleanup`: every program and external actor is weakly fair; the timers that end the
  Job's two passes are strongly fair, because time passes whatever else is going on.
* `AddonImages`: both controllers are weakly fair, and each registry is
  strongly fair, as a work queue does not starve a key while it serves others.

Nothing is assumed of users, failures, stops and crashes, of which there are finitely
many.

## 5. Disagreements between code and documentation

Each is a run that TLC ends with a counterexample.

| Run | What happens |
|---|---|
| `pull_rolling` | the old pod, its configuration already read, thaws a ManifestWork after the new pod's sweep |
| `left_mirrored` | a registry lets its finalizer go while a configuration still carries its name and its mirrored image: a cluster it selects counts as handled although its addon is missing and nothing was done, and the scan skips handled clusters |

Seen while modelling and allowed by the models, rather than given a run of their own:

* when the list a pass starts with fails, `Reconcile` of the GitOpsCluster controller
  returns neither an error nor a requeue, so that the next event is needed;
* the agent's secret counts as user-made and blocks the import after a switch to push mode;
* `ClustersRegistered` becomes True though an agent secret could not be written;
* removing an operation writes the in-cluster destination into the hub's Application, in
  both pull models (`helper.go:165`, `maestro_helper.go:220-227`): the destination a user
  gave is lost;
* in a rolling restart the old pod writes from a read that is older than what the new
  pod did: it creates a ManifestWork after the new pod found none to delete and let the
  Application go, and the cluster keeps a deleted Application; or it puts an older spec
  over a newer one (the resourceVersion it sends is the ManifestWork's, read after the
  Application).  `FollowsPlan` is therefore about one pod at a time; TLC finds the first
  with the instance of `pull_two_pods` and a deletion in `Churn`.  Over Maestro it is the
  same (`cmd/maestropropagation/main.go:79,143`), and TLC finds `WorkGoesFirst` violated with
  two pods, `MaxAlive = 2` and a deletion: the old pod has read the Application and that it
  has no ManifestWork, the Application is deleted, the new pod finds none and removes the
  finalizer, and the old pod makes the ManifestWork, which nobody deletes;
* the removal of an operation is an event itself, and the ManifestWork without it may
  overtake the work agent;
* a cluster that leaves the placement stays registered while its ManagedCluster exists;
  an agent secret never enters the orphan list; a crash between de-labelling and
  deleting strands a secret; an Application without finalizer leaves its ManifestWork;
* an upgrade by OLM looks like a ghost install for a moment, and the agent then removes
  InstallPlan and Subscription of a running operator (`gitopsaddon_install.go:407`); the
  operator comes back, which is what `OperatorArrives` shows;
* a mirrored image whose original equals the image wanted is kept although no registry
  mirrors it any more (`addon_management.go:617`).

## 6. Proofs

Checked by TLAPS for any sets of clusters, ApplicationSets, namespaces, registries and
pods and any bounds.  Assumed are only the named assumptions of the modules, which give
the constants their types and say which names differ (a registry is not called `none`,
the target is no old namespace): `SpecsAssumption`, `BoundsAssumption`, `PullAssumption`,
`ReportsAssumption`, `MaestroAssumption`, `OlmAssumption`, `CleanupAssumption` and
`ImagesAssumption`.  TLC evaluates them in every run.

| Module | Theorems |
|---|---|
| `ClusterSecretsProofs` | `TypeCorrect`, `InductiveInvariant`, `RegisteredStaysAlways`, `EvidenceHolds`, `StrandedOnlyByTwoFailures`, `ReferencedStays`, `SuccessIsTrue` |
| `PullModelProofs` | `PullTypeCorrect`, `PullInvariant`, `OperationsAreCarried`; for one pod at a time `PullOnePodInvariant`, `PullFrozen`, `PullWorkGoesFirst`, `PullInOrder`, `PullFollowsPlan` |
| `MaestroPullProofs` | `MaestroTypeCorrect`, `MaestroInvariant`, `MaestroOperationCarried`, `MaestroNothingTakenBack`; for one pod at a time `MaestroOnePodInvariant`, `MaestroWorkGoesFirst`, `MaestroInOrder`, `MaestroFollowsPlan` |
| `StatusReportsProofs` | `ReportsInvariant`, `ReportsTypeCorrect`, `ReportsFollowFeed`, `ReportsWatch`, `ReportsDeletesForMissing`, `ReportsGoLast` |
| `OlmInstallProofs` | `OlmInvariant`, `OlmTypeCorrect`, `OlmUsersKept` |
| `SpokeCleanupProofs` | `CleanupInvariant`, `CleanupTypeCorrect`, `CleanupSuccessMeansClean`, `CleanupOperatorOutlives`, `CleanupUsersUntouched` |
| `AddonImagesProofs` | `ImagesInvariant`, `ImagesTypeCorrect`, `ImagesOriginalsAreSources` |

None of the properties is inductive by itself; what each invariant adds, and why:

*`ClusterSecretsProofs`.*  A step that takes a secret away is harmless only because
another secret of the cluster is there.  The inductive invariant adds, for each place in
the pass, what the earlier steps established: from the write of the new secret to the
end of the clean-up that secret is present, visible, and none of those to be removed;
when blank secrets are deleted the agent's is present; when an orphan is deleted its
ManagedCluster was seen absent in this very pass (`cluster \in absentInPass`), which
deletions record and recreations do not erase.  Then each action either leaves a visible
secret or concerns a cluster that was absent.

`Evidence` adds what a pass knows beyond that, in five parts.  `OneStranded`: until two
calls failed or the pod died, the one secret without the Argo CD label is the one between
`Delabel` and its deletion or relabelling; a state at `Relabel` has one failure behind
it.  `UserApart`: a user's secret never has the ACM label, so no list of the clean-up
has it.  `OldUnused`: what `CheckOld` found of references is still so when the secret is
de-labelled, for the references that last the whole pass.  `ModeKept`: the mode read at
the start decides what is written to the very end, and the secret written is the
one the clean-up compares with.  `ImportedSoFar`: a cluster is struck off the plan with a
failure recorded or with a secret of that mode.  One lemma, `SecretsEffect`, says in
which five ways a step of the worker changes a secret at all.

*`PullModelProofs`, any number of pods.*  As long as `appFresh` holds, what a pod read is
what the hub holds, and a pod at `clear` has put the operation it read into a
ManifestWork of the annotated cluster.  `OperationCarried` follows, since
`ClearOperation` succeeds on the current version only and no other step removes an
operation without being a user's change.

*`PullModelProofs`, one pod at a time.*  These theorems have the hypothesis
`MaxAlive = 1`, which is the time outside of a rolling restart and the instance of
`pull_one_pod`; pods may still die and be followed by others any number of times.  It is needed:
`pull_rolling` violates `FrozenStays` with two pods, and section 5 has what `FollowsPlan`
meets.  `OnePodInv`: a worker runs only in the pod that is up (`OnePod`); one at
`finalize` has seen to the ManifestWork, which nobody else makes live (`DeletedFirst`);
what the sweep has passed is ReadOnly unless it missed one (`Swept`); and, while no call
failed, when the frozen state is reached the configuration is `disabled` and the worker gets no
further than to read that (`FrozenIdle`).  `InOrder` and `Reading` say that versions only
grow down the line: what a cluster runs is no newer than its ManifestWork, that no newer
than the Application, and what the pod has read is, until it writes, no older than any
ManifestWork.  That last part is what keeps an older spec from a cluster, and it is not
checked by any resourceVersion: the Application is read before the ManifestWork, and
only the absence of a second writer makes it true.  `PullFollowsPlan` then maps
the changes of the hub (`HubEffect`, `PlanHub`) and of the ManifestWorks and
clusters (`WorkEffect`, `PlanWorks`) to the actions of `Rollout` one by one.

*`MaestroPullProofs`, any number of pods.*  The same for two different controllers: a copy
that counts as current is equal to the Application, whichever pod or the aggregation holds
it, and a pod at `clear` has carried its operation.  Since an Update succeeds with a current
copy only, it changes what the code changes in that copy and nothing else, which is
`NothingTakenBack`.

*`MaestroPullProofs`, one pod at a time.*  With the hypothesis `MaxAlive = 1`, as for
`PullModel`: the one pod at `finalize` has removed the ManifestWork of its cluster, which
only another pod could make again (`DeletedFirst`), as section 5 tells of two.  `InOrder` and `Reading` are those of `PullModel`, and `MaestroFollowsPlan` follows in the
same way for any number of failures and restarts, the aggregation's writes in between.

*`StatusReportsProofs`.*  Follows one feedback on its way: what a ManifestWork, the map of
a cycle, a report and the conditions of a reconcile hold for an Application was given by
its own cluster (`FWorks`, `FMap`, `FReports`, `FConds`); the Application worked on is one
the report names (`FTodo`); and while its version is the one that was read its status is
the one that was read, or that with `Progressing` inserted (`FFresh`), which is why
`Healthy` is written over `Progressing` only.  `ReportsFollowFeed` then maps each step to a
step of `StatusFeed` or a stutter.

For the cleanup, `Watch`: during a pass `away` and `here` record every ApplicationSet that
was missing or there, and what the pass collects to delete is `away` (`Watched`);
Applications exist only with their ApplicationSet, so nobody makes the ManifestWork of
a missing one again (`Owned`); and each ManifestWork that a missing one's report names is
deleted, or still to come, unless a deletion failed or the ApplicationSet came back
(`Asked`), which is what the removal of the report needs.

*`OlmInstallProofs`.*  `Targets`: the Subscription whose deletion, or whose CSV's deletion,
the pass has decided on is not a user's, and stays so because nobody but the agent makes
Subscriptions.  A CSV that the sweep deletes was claimed by no Subscription when it
looked, and the namespace has no user's Subscription when it is deleted: the sweep only
goes where none was, and only the agent makes one.

*`SpokeCleanupProofs`.*  `CleanSoFar`: in an attempt without failure, without an uncounted
failed call and without a restored agent that wrote, what is behind the Job's `pc` is
gone.  `QuietAfterCR`: past the ArgoCD CR there is none, and neither policy nor pending
enforcement to make another.

*`AddonImagesProofs`.*  `Undoable`, of every configuration in the cluster *and* of what the
controllers have read of it: the image is a source image or exactly what was last written, the last write
carries the recorded registry's name, and original and name are there together.  The
copies belong to it because each writer computes from its copy.

The type invariants of `OlmInstall`, `SpokeCleanup`, `AddonImages` and `MaestroPull` are
proved and not repeated as properties of the runs.

Every invariant and every action property of the runs that TLC passes is a theorem, and
so are the three refinements.

*Model-checked only.*  The liveness properties, because liveness under fairness (and
ENABLED) is beyond the proof system here: `FreshCredentials`, `OrphansForgotten`,
`PushEndsUnique`, `AgentReplacesBlank`, `SpecDelivered`, `DeletionCompletes`,
`StatusConverges`, `ReportConverges`, `OrphansGo`, `StatusArrives`, `OperatorArrives`,
`OldGoes`, `Settles`, `CleanupEnds`, `AgentResumes`, `ImageArrives` and `Quiet`.  No model
has a RECURSIVE operator, and nothing rests on induction over data.

## 7. Not modelled

* *Agent certificates.*  Creation and rotation of CA, principal and resource-proxy
  certificates: one writer, create-or-replace calls in sequence whose interest is the
  cryptography.  That they may fail is in `ClusterSecrets` as a start that fails.
* *Hub CA propagation, RBAC, redis and JWT secrets*: create-if-missing in sequence.
* *ArgoCD policy and templates*: text generation and create-or-keep; their effect on the
  managed cluster is in `OlmInstall` and `SpokeCleanup` as external actions.  The removal of
  addons of clusters that left the placement is left to the plan.
* *Agent version heal* beyond the lookup of the principal's image: text surgery on
  policies, left to the plan.
* *Spoke secret controller*: one writer that copies a secret when its source changes.
* *GitOpsCluster conditions* other than `ClustersRegistered`: left to the plan.
* *Entry points, API types, charts*, logging and metrics hold no protocol state.
