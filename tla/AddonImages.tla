----------------------------- MODULE AddonImages -----------------------------
(***************************************************************************)
(* The image of the Argo CD agent on its way to the managed clusters.  Two *)
(* controllers write one variable of a cluster's AddOnDeploymentConfig:    *)
(* the GitOpsCluster controller sets it to the image of the hub's          *)
(* principal, or to a default, and the image registry controller replaces  *)
(* its registry host by the mirror of a ManagedClusterImageRegistry that   *)
(* selects the cluster, recording in annotations what it replaced.  Both   *)
(* read without a cache, compute, and update with the version they read:   *)
(* what the other wrote in between makes the update a conflict.            *)
(***************************************************************************)
EXTENDS Naturals, FiniteSets

CONSTANTS
  Clusters, Registries,   \* managed clusters, ManagedClusterImageRegistries
  MaxVersion,   \* versions of the image: 0 is the built-in default
  MaxChanges,   \* bound: changes by users
  MaxFaults     \* bound: failed calls and restarts of the controllers

ASSUME ImagesAssumption ==
  /\ MaxVersion \in Nat /\ MaxChanges \in Nat /\ MaxFaults \in Nat
  /\ "source" \notin Registries /\ "none" \notin Registries

VARIABLES
  adc,       \* adc[c]: the AddOnDeploymentConfig, its image and the three annotations
  existing,  \* the configuration the GitOpsCluster controller has read, to update it
  items,     \* items[c]: the configuration the image registry controller has read
  addon,     \* addon[c]: the ManagedClusterAddOn: absent, without or with its reference
  reg,       \* reg[r]: the ManagedClusterImageRegistry, and the clusters it selects
  principal, \* version of the hub's principal; 0 when there is no Deployment of it
  skip,      \* the GitOpsCluster has the annotation skip-agent-version-heal
  hub,       \* the pass of the GitOpsCluster controller
  worker,    \* the pass of the image registry controller
  changes, faults    \* consumption of the bounds

adcs == <<adc, existing, items>>
users == <<principal, skip>>
bounds == <<changes, faults>>
vars == <<adcs, addon, reg, users, hub, worker, bounds>>

None == [host |-> "none", ver |-> 0]
Image(host, ver) == [host |-> host, ver |-> ver]
Plain(val) == [there |-> TRUE, val |-> val, orig |-> None, last |-> None, owner |-> "none"]
NoConfig == [there |-> FALSE, val |-> None, orig |-> None, last |-> None, owner |-> "none"]
NoRegistry == [there |-> FALSE, deleting |-> FALSE, opted |-> FALSE, fin |-> FALSE,
               maps |-> FALSE, selects |-> {}]
Established == [there |-> TRUE, deleting |-> FALSE, opted |-> TRUE, fin |-> TRUE,
                maps |-> TRUE, selects |-> Clusters]
NoConfigs == [c \in Clusters |-> NoConfig]
HubIdle == [pc |-> "idle", img |-> 0, skip |-> FALSE, todo |-> {}, at |-> "none"]
WorkerIdle == [pc |-> "idle", r |-> "none", view |-> NoRegistry, todo |-> {}, got |-> {},
               errs |-> FALSE]

Init ==
  /\ adc = NoConfigs /\ existing = NoConfig /\ items = NoConfigs
  /\ addon \in [Clusters -> {"absent", "bare"}]
  /\ reg \in [Registries -> {NoRegistry, Established}]
  /\ principal = 0 /\ skip = FALSE
  /\ hub = HubIdle /\ worker = WorkerIdle /\ changes = 0 /\ faults = 0

Fault   == faults < MaxFaults /\ faults' = faults + 1
Succeed == UNCHANGED faults

-----------------------------------------------------------------------------
(* Users, the principal's operator, the placements. *)

Change == changes < MaxChanges /\ changes' = changes + 1

PrincipalMoves ==
  /\ Change
  /\ \E v \in 0..MaxVersion : v # principal /\ principal' = v
  /\ UNCHANGED <<adcs, addon, reg, skip, hub, worker, faults>>

ToggleSkip ==
  /\ Change /\ skip' = ~skip
  /\ UNCHANGED <<adcs, addon, reg, principal, hub, worker, faults>>

RemoveAddon(c) ==
  /\ Change /\ addon[c] # "absent" /\ addon' = [addon EXCEPT ![c] = "absent"]
  /\ UNCHANGED <<adcs, reg, users, hub, worker, faults>>

\* A registry appears, opts in or out, gains or loses its mirror, or selects other clusters.
EditRegistry(r) ==
  /\ Change /\ ~reg[r].deleting
  /\ \/ ~reg[r].there /\ reg' = [reg EXCEPT ![r] = [Established EXCEPT !.fin = FALSE]]
     \/ reg[r].there /\ reg' = [reg EXCEPT ![r].opted = ~@]
     \/ reg[r].there /\ reg' = [reg EXCEPT ![r].maps = ~@]
     \/ /\ reg[r].there
        /\ \E c \in Clusters :
             reg' = [reg EXCEPT ![r].selects = IF c \in @ THEN @ \ {c} ELSE @ \cup {c}]
  /\ UNCHANGED <<adcs, addon, users, hub, worker, faults>>

DeleteRegistry(r) ==
  /\ Change /\ reg[r].there /\ ~reg[r].deleting
  /\ reg' = [reg EXCEPT ![r] = IF @.fin THEN [@ EXCEPT !.deleting = TRUE] ELSE NoRegistry]
  /\ UNCHANGED <<adcs, addon, users, hub, worker, faults>>

Users == \/ PrincipalMoves \/ ToggleSkip
         \/ \E c \in Clusters : RemoveAddon(c)
         \/ \E r \in Registries : EditRegistry(r) \/ DeleteRegistry(r)

-----------------------------------------------------------------------------
(* An update of what was read before: a conflict if somebody has written since. *)

Write(c, new, old) == adc' = [adc EXCEPT ![c] = IF new = old THEN @ ELSE new]

Fits(c, new, old) == new = old \/ old = adc[c]

-----------------------------------------------------------------------------
(* The GitOpsCluster controller. *)

HubUnchanged == UNCHANGED <<reg, users, worker, changes>>

\* A principal that cannot be listed is taken for one that is not there.
HealAgentVersionDrift ==
  /\ hub.pc = "idle"
  /\ LET pass(img) == [pc |-> "configs", img |-> img, skip |-> skip, todo |-> Clusters,
                       at |-> "none"]
     IN \/ hub' = pass(principal) /\ Succeed
        \/ hub' = pass(0) /\ Fault
  /\ UNCHANGED <<adcs, addon>> /\ HubUnchanged

\* [Mutant] Every pass writes the source image.
PreserveNone(val, a) == val

\* [Mutant] What has been mirrored once stays.
PreserveAll(val, a) == IF a.orig # None THEN a.val ELSE val

\* An image that is mirrored from the very one wanted is left as it is.
Preserved(val, a) == IF a.orig # None /\ a.orig = val THEN a.val ELSE val

Configured(a) ==
  IF ~a.there THEN Plain(IF hub.skip THEN None ELSE Image("source", hub.img))
  ELSE IF hub.skip THEN a
  ELSE [a EXCEPT !.val = Preserved(Image("source", hub.img), a)]

\* The clusters in turn: the configuration is read, ...
GetAddOnDeploymentConfig(c) ==
  /\ hub.pc = "configs" /\ c \in hub.todo /\ UNCHANGED <<adc, items, addon>>
  /\ \/ hub' = [hub EXCEPT !.pc = "update", !.todo = @ \ {c}, !.at = c]
        /\ existing' = adc[c] /\ Succeed
     \/ hub' = [hub EXCEPT !.pc = "addon", !.todo = @ \ {c}, !.at = c]
        /\ UNCHANGED existing /\ Fault
  /\ HubUnchanged

\* ... and made or updated, ...
CreateAddOnDeploymentConfig ==
  /\ hub.pc = "update" /\ hub' = [hub EXCEPT !.pc = "addon"]
  /\ LET new == Configured(existing) IN
     \/ Fits(hub.at, new, existing) /\ Write(hub.at, new, existing) /\ Succeed
     \/ ~Fits(hub.at, new, existing) /\ UNCHANGED adc /\ Succeed
     \/ UNCHANGED adc /\ Fault
  /\ existing' = NoConfig
  /\ UNCHANGED <<items, addon>> /\ HubUnchanged

\* ... and whatever came of it, the addon is made, or gets the reference to its configuration.
EnsureManagedClusterAddon ==
  /\ hub.pc = "addon"
  /\ hub' = IF hub.todo = {} THEN HubIdle ELSE [hub EXCEPT !.pc = "configs", !.at = "none"]
  /\ \/ addon' = [addon EXCEPT ![hub.at] = "ref"] /\ Succeed
     \/ UNCHANGED addon /\ Fault
  /\ UNCHANGED adcs /\ HubUnchanged

Hub == \/ HealAgentVersionDrift \/ CreateAddOnDeploymentConfig \/ EnsureManagedClusterAddon
       \/ \E c \in Clusters : GetAddOnDeploymentConfig(c)

-----------------------------------------------------------------------------
(* The image registry controller, one pass at a time. *)

\* The clusters a registry selects, and the configuration the addon of a cluster refers to.
Selected(r) == reg[r].selects
Referenced(c) == addon[c] = "ref" /\ adc[c].there

WorkerUnchanged == UNCHANGED <<addon, users, hub, existing, changes>>

Reconcile(r) ==
  /\ worker.pc = "idle" /\ reg[r].there
  /\ LET pass(pc) == [pc |-> pc, r |-> r, view |-> reg[r], todo |-> Selected(r), got |-> {},
                   errs |-> FALSE]
     IN \/ /\ reg[r].deleting \/ ~reg[r].opted
           /\ reg[r].fin
           /\ \/ worker' = pass("revert") /\ Succeed
              \/ worker' = [pass("revert") EXCEPT !.todo = {}, !.view.selects = {}] /\ Fault
           /\ UNCHANGED reg
        \/ /\ ~reg[r].deleting /\ reg[r].opted /\ ~reg[r].fin
           /\ reg' = [reg EXCEPT ![r].fin = TRUE]
           /\ Succeed /\ UNCHANGED worker
        \/ /\ ~reg[r].deleting /\ reg[r].opted /\ reg[r].fin /\ Selected(r) # {}
           /\ worker' = pass("apply") /\ Succeed
           /\ UNCHANGED reg
  /\ UNCHANGED <<adc, items>> /\ WorkerUnchanged

\* A registry entry without a source takes every host but its own.
Mirrored(img) == Image(worker.r, img.ver)
Mirrorable(img) == worker.view.maps /\ img.host \notin {"none", worker.r}

\* [Mutant] The image is computed from the live value.
LiveSource(a) == a.val

\* Its own last write is recomputed from the recorded original; anything else is a new source.
SourceOf(a) == IF a.orig # None /\ a.val = a.last THEN a.orig ELSE a.val

Updated(a) ==
  IF Mirrorable(SourceOf(a))
  THEN [there |-> TRUE, val |-> Mirrored(SourceOf(a)), orig |-> SourceOf(a),
        last |-> Mirrored(SourceOf(a)), owner |-> worker.r]
  ELSE Plain(SourceOf(a))

\* A registry does not take a configuration over from another.
Manageable(a) == a.owner \in {"none", worker.r}

\* Go on to the next cluster, after an error or not.
Handled(c, err) ==
  /\ worker' = [worker EXCEPT !.todo = @ \ {c}, !.got = @ \ {c}, !.errs = @ \/ err]
  /\ items' = [items EXCEPT ![c] = NoConfig]

\* By way of the addon to the configuration; where either is missing there is nothing to do.
FindGitOpsAddonDeploymentConfig(c) ==
  /\ worker.pc \in {"apply", "revert"} /\ c \in worker.todo /\ worker.got = {}
  /\ \/ ~Referenced(c) /\ Handled(c, FALSE) /\ Succeed
     \/ /\ Referenced(c) /\ Succeed
        /\ worker' = [worker EXCEPT !.got = {c}] /\ items' = [items EXCEPT ![c] = adc[c]]
     \/ Fault /\ Handled(c, TRUE)
  /\ UNCHANGED <<adc, reg>> /\ WorkerUnchanged

\* The update of what has been read, and its errors.
Update(c, new) ==
  \/ /\ Fits(c, new, items[c]) /\ Write(c, new, items[c])
     /\ Handled(c, FALSE) /\ Succeed
  \/ ~Fits(c, new, items[c]) /\ UNCHANGED adc /\ Handled(c, TRUE) /\ Succeed
  \/ UNCHANGED adc /\ Handled(c, TRUE) /\ Fault

ApplyImageMirroring(c) ==
  /\ worker.pc = "apply" /\ c \in worker.got
  /\ \/ Manageable(items[c]) /\ Update(c, Updated(items[c]))
     \/ ~Manageable(items[c]) /\ UNCHANGED adc /\ Handled(c, TRUE) /\ Succeed
  /\ UNCHANGED reg /\ WorkerUnchanged

ApplyEnds ==
  /\ worker.pc = "apply" /\ worker.todo = {} /\ worker' = WorkerIdle
  /\ Succeed /\ UNCHANGED <<adc, items, reg>> /\ WorkerUnchanged

\* The original comes back, even over a newer image.
Reverted(a) == Plain(IF a.orig = None \/ a.val = None THEN a.val ELSE a.orig)

\* What does not carry the registry's name is left alone.
Revert(c) ==
  \/ items[c].owner = worker.r /\ Update(c, Reverted(items[c]))
  \/ items[c].owner # worker.r /\ UNCHANGED adc /\ Handled(c, FALSE) /\ Succeed

\* The clusters that are selected, one at a time, by way of their addon, ...
RevertClusterImageMirroring(c) ==
  /\ worker.pc = "revert" /\ c \in worker.got
  /\ Revert(c)
  /\ UNCHANGED reg /\ WorkerUnchanged

\* ... then a list of all configurations, ...
ScanBegins ==
  /\ worker.pc = "revert" /\ worker.todo = {}
  /\ LET rest == Clusters \ worker.view.selects IN
     \/ /\ worker' = [worker EXCEPT !.pc = "scan", !.todo = rest, !.got = rest]
        /\ items' = [c \in Clusters |-> IF c \in rest THEN adc[c] ELSE NoConfig] /\ Succeed
     \/ worker' = [worker EXCEPT !.pc = "scan", !.errs = TRUE] /\ UNCHANGED items /\ Fault
  /\ UNCHANGED <<adc, reg>> /\ WorkerUnchanged

\* ... of which those are taken that carry the name and are not in a selected cluster.
RevertScanned(c) ==
  /\ worker.pc = "scan" /\ c \in worker.got
  /\ Revert(c)
  /\ UNCHANGED reg /\ WorkerUnchanged

\* The finalizer goes when all has been reverted and the registry is still what was read.
RemoveFinalizer ==
  /\ worker.pc = "scan" /\ worker.todo = {} /\ worker' = WorkerIdle
  /\ LET now == reg[worker.r]
         same == [now EXCEPT !.selects = {}] = [worker.view EXCEPT !.selects = {}]
     IN \/ worker.errs /\ UNCHANGED reg /\ Succeed
        \/ /\ ~worker.errs /\ Succeed
           /\ IF same
              THEN reg' = [reg EXCEPT ![worker.r] =
                             IF now.deleting THEN NoRegistry ELSE [now EXCEPT !.fin = FALSE]]
              ELSE UNCHANGED reg
        \/ ~worker.errs /\ Fault /\ UNCHANGED reg
  /\ UNCHANGED <<adc, items>> /\ WorkerUnchanged

Worker == \/ ApplyEnds \/ ScanBegins \/ RemoveFinalizer
          \/ \E c \in Clusters : \/ FindGitOpsAddonDeploymentConfig(c) \/ ApplyImageMirroring(c)
                                 \/ RevertClusterImageMirroring(c) \/ RevertScanned(c)

-----------------------------------------------------------------------------
Restart ==
  /\ Fault /\ hub' = HubIdle /\ worker' = WorkerIdle
  /\ existing' = NoConfig /\ items' = NoConfigs
  /\ UNCHANGED <<adc, addon, reg, users, changes>>

Next == \/ Users \/ Hub \/ Worker \/ Restart
        \/ \E r \in Registries : Reconcile(r)

Spec == Init /\ [][Next]_vars

\* Passes begin again periodically and end.
FairSpec == /\ Spec /\ WF_vars(Hub) /\ WF_vars(Worker)
            /\ \A r \in Registries : SF_vars(Reconcile(r))

-----------------------------------------------------------------------------
(* Properties. *)

Images == {None} \cup [host : {"source"} \cup Registries, ver : 0..MaxVersion]
Configs == [there : BOOLEAN, val : Images, orig : Images, last : Images,
            owner : {"none"} \cup Registries]
RegistryStates == [there : BOOLEAN, deleting : BOOLEAN, opted : BOOLEAN, fin : BOOLEAN,
                   maps : BOOLEAN, selects : SUBSET Clusters]
HubPasses == [pc : {"idle", "configs", "update", "addon"}, img : 0..MaxVersion, skip : BOOLEAN,
              todo : SUBSET Clusters, at : {"none"} \cup Clusters]
WorkerPasses == [pc : {"idle", "apply", "revert", "scan"}, r : {"none"} \cup Registries,
                 view : RegistryStates, todo : SUBSET Clusters, got : SUBSET Clusters,
                 errs : BOOLEAN]

\* The variables have their types, and a pass is on behalf of a registry.
TypeOK ==
  /\ adc \in [Clusters -> Configs]
  /\ existing \in Configs /\ items \in [Clusters -> Configs]
  /\ addon \in [Clusters -> {"absent", "bare", "ref"}]
  /\ reg \in [Registries -> RegistryStates]
  /\ principal \in 0..MaxVersion /\ skip \in BOOLEAN
  /\ hub \in HubPasses /\ (hub.pc \in {"update", "addon"} => hub.at \in Clusters)
  /\ worker \in WorkerPasses /\ (worker.pc # "idle" => worker.r \in Registries)
  /\ changes \in 0..MaxChanges /\ faults \in 0..MaxFaults

\* What is recorded as the original is a source image, never a mirrored one, and is there as
\* long as a registry's name is: what mirroring has done can be undone, whatever sequence of
\* registries went over the configuration.
OriginalsAreSources ==
  \A c \in Clusters : /\ adc[c].orig.host \in {"none", "source"}
                      /\ (adc[c].owner = "none") = (adc[c].orig = None)
                      /\ adc[c].last.host = adc[c].owner

Wanting(c) == {r \in Registries : reg[r].there /\ reg[r].opted /\ ~reg[r].deleting
                                  /\ reg[r].maps /\ c \in reg[r].selects}

\* The image that arrives has the principal's version and, where registries want it mirrored,
\* the host of one of them, unless a registry that is not concerned with the cluster any more
\* still holds its configuration.
ImageArrives ==
  <>[](\A c \in Clusters :
         (~skip /\ adc[c].owner \in Wanting(c) \cup {"none"})
         => /\ adc[c].there /\ adc[c].val.ver = principal
            /\ adc[c].val.host \in IF Wanting(c) = {} THEN {"source"} ELSE Wanting(c))

\* The two controllers, and rival registries, stop rewriting the configuration: each rewrite
\* restarts the addon agent of the cluster.
Quiet == <>[][UNCHANGED adc]_vars

\* The comment on revertImageMirroring: a registry that has been let go is not recorded in
\* any configuration.
ReleasedMeansReverted ==
  \A r \in Registries : ~reg[r].fin => \A c \in Clusters : adc[c].owner # r
==============================================================================
