-------------------------- MODULE AddonImagesProofs --------------------------
(* What holds of the agent's image, for any number of clusters and of registries. *)
EXTENDS AddonImages, TLAPS

\* A configuration whose annotations tell the truth: the image is a source image, or the very
\* one that was last written by the registry that is recorded, which is mirrored from the
\* recorded original.
Undoable(a) ==
  /\ a \in Configs
  /\ a.orig.host \in {"none", "source"}
  /\ (a.owner = "none") = (a.orig = None)
  /\ a.last.host = a.owner
  /\ a.val.host \in {"none", "source"} \/ a.val = a.last

\* In the cluster and in what either controller has read.
Owned == /\ Undoable(existing)
         /\ \A c \in Clusters : Undoable(adc[c]) /\ Undoable(items[c])
IInv == TypeOK /\ Owned

\* The fields of a configuration.
LEMMA ConfigFields ==
  ASSUME NEW a \in Configs
  PROVE  /\ a.there \in BOOLEAN /\ a.val \in Images /\ a.orig \in Images
         /\ a.last \in Images /\ a.owner \in {"none"} \cup Registries
BY DEF Configs

\* The fields of an image; only no image at all has no host.
LEMMA ImageFields ==
  ASSUME NEW i \in Images
  PROVE  /\ i.ver \in 0..MaxVersion /\ i.host \in {"none", "source"} \cup Registries
         /\ (i.host = "none") = (i = None)
BY ImagesAssumption DEF Images, None

\* A configuration without annotations, as buildDefaultAddOnDeploymentConfig makes it.
LEMMA PlainUndoable ==
  ASSUME NEW i \in Images, i.host \in {"none", "source"}
  PROVE  Undoable(Plain(i))
<1>1. Plain(i) = [there |-> TRUE, val |-> i, orig |-> None, last |-> None, owner |-> "none"]
  BY DEF Plain
<1>2. None \in Images /\ None.host = "none"
  BY DEF Images, None
<1> QED BY <1>1, <1>2 DEF Undoable, Configs

\* No configuration at all.
LEMMA NothingUndoable == Undoable(NoConfig)
<1>1. None \in Images /\ None.host = "none"
  BY ImagesAssumption DEF Images, None
<1> QED BY <1>1 DEF Undoable, NoConfig, Configs

\* What the GitOpsCluster controller writes (BuildAddOnDeploymentConfig, line 617).
LEMMA ConfiguredUndoable ==
  ASSUME NEW a, Undoable(a), hub \in HubPasses
  PROVE  Undoable(Configured(a))
<1>1. hub.img \in 0..MaxVersion /\ hub.skip \in BOOLEAN
  BY DEF HubPasses
<1> DEFINE new == Image("source", hub.img)
<1>2. new \in Images /\ new.host = "source" /\ None \in Images /\ None.host = "none"
  BY <1>1 DEF Images, Image, None
<1>3. CASE ~a.there
  BY <1>2, <1>3, PlainUndoable DEF Configured
<1>4. CASE a.there /\ hub.skip
  BY <1>4 DEF Configured
<1>5. CASE a.there /\ ~hub.skip
  <2>1. Preserved(new, a) = a.val \/ Preserved(new, a) = new
    BY DEF Preserved
  <2>2. ASSUME NEW v, v = a.val \/ v = new
        PROVE  Undoable([a EXCEPT !.val = v])
    BY <2>2, <1>2 DEF Undoable, Configs
  <2> HIDE DEF new
  <2>3. Configured(a) = [a EXCEPT !.val = Preserved(new, a)]
    BY <1>5 DEF Configured, new
  <2> QED BY <2>1, <2>2, <2>3, Zenon
<1> QED BY <1>3, <1>4, <1>5

\* What a registry's mirroring writes (updateAddOnDeploymentConfig).
LEMMA UpdatedUndoable ==
  ASSUME NEW a, Undoable(a), worker \in WorkerPasses, worker.r \in Registries, Manageable(a)
  PROVE  Undoable(Updated(a))
<1>1. SourceOf(a) \in Images /\ SourceOf(a).host \in {"none", "source"}
  <2>1. a.val \in Images /\ a.orig \in Images /\ None \in Images
    BY ConfigFields DEF Undoable, Images
  <2>2. CASE a.orig # None /\ a.val = a.last
    BY <2>1, <2>2 DEF SourceOf, Undoable
  <2>3. CASE a.orig # None /\ a.val # a.last
    BY <2>1, <2>3 DEF SourceOf, Undoable
  <2>4. CASE a.orig = None
    <3>1. a.owner = "none" /\ a.last.host = "none"
      BY <2>4 DEF Undoable
    <3>2. a.val.host \in {"none", "source"}
      BY <3>1 DEF Undoable
    <3> QED BY <2>1, <2>4, <3>2 DEF SourceOf
  <2> QED BY <2>2, <2>3, <2>4
<1> DEFINE s == SourceOf(a)
           m == Mirrored(s)
<1>2. CASE Mirrorable(s)
  <2>1. s.host = "source" /\ s # None /\ s.ver \in 0..MaxVersion
    BY <1>1, <1>2, ImageFields DEF Mirrorable, None
  <2>2. m \in Images /\ m.host = worker.r
    BY <2>1 DEF Mirrored, Image, Images
  <2>3. Updated(a) = [there |-> TRUE, val |-> m, orig |-> s, last |-> m, owner |-> worker.r]
    BY <1>2 DEF Updated
  <2>4. worker.r # "none"
    BY ImagesAssumption
  <2> HIDE DEF s, m
  <2> QED BY <1>1, <2>1, <2>2, <2>3, <2>4 DEF Undoable, Configs, s
<1>3. CASE ~Mirrorable(s)
  BY <1>1, <1>3, PlainUndoable DEF Updated
<1> QED BY <1>2, <1>3

\* What undoing it writes (revertAddOnDeploymentConfig).
LEMMA RevertedUndoable ==
  ASSUME NEW a, Undoable(a)
  PROVE  Undoable(Reverted(a))
<1>1. a.val \in Images /\ a.orig \in Images
  BY ConfigFields DEF Undoable
<1>2. CASE a.orig = None \/ a.val = None
  <2>1. a.val.host \in {"none", "source"}
    BY <1>2 DEF Undoable, None
  <2> QED BY <1>1, <1>2, <2>1, PlainUndoable DEF Reverted
<1>3. CASE ~(a.orig = None \/ a.val = None)
  BY <1>1, <1>3, PlainUndoable DEF Reverted, Undoable
<1> QED BY <1>2, <1>3

-----------------------------------------------------------------------------
(* The steps.  An update writes what is undoable, or nothing. *)

\* What a step may write of the configurations, and of everything else, one variable at a time.
AdcStep == adc' \in [Clusters -> Configs] /\ \A c \in Clusters : Undoable(adc'[c])
ItemsStep == items' \in [Clusters -> Configs] /\ \A c \in Clusters : Undoable(items'[c])
ExistingStep == Undoable(existing')
AddonStep == addon' \in [Clusters -> {"absent", "bare", "ref"}]
RegStep == reg' \in [Registries -> RegistryStates]
UsersStep == principal' \in 0..MaxVersion /\ skip' \in BOOLEAN
HubStep == hub' \in HubPasses /\ (hub'.pc \in {"update", "addon"} => hub'.at \in Clusters)
WorkerStep == worker' \in WorkerPasses /\ (worker'.pc # "idle" => worker'.r \in Registries)
BoundsStep == changes' \in 0..MaxChanges /\ faults' \in 0..MaxFaults

\* An update writes what is undoable, or nothing.
LEMMA WriteOwned ==
  ASSUME IInv, NEW c \in Clusters, NEW new, NEW old,
         (Write(c, new, old) /\ Undoable(new)) \/ UNCHANGED adc
  PROVE  AdcStep
<1>1. CASE UNCHANGED adc
  BY <1>1 DEF IInv, TypeOK, Owned, AdcStep
<1>2. CASE Write(c, new, old) /\ Undoable(new)
  <2>1. adc \in [Clusters -> Configs] /\ new \in Configs
    BY <1>2 DEF IInv, TypeOK, Undoable
  <2>2. adc' \in [Clusters -> Configs]
    BY <1>2, <2>1 DEF Write
  <2>3. ASSUME NEW d \in Clusters PROVE adc'[d] = adc[d] \/ adc'[d] = new
    BY <1>2, <2>1 DEF Write
  <2>4. \A d \in Clusters : Undoable(adc'[d])
    <3> TAKE d \in Clusters
    <3>1. CASE adc'[d] = adc[d]
      BY <3>1 DEF IInv, Owned
    <3>2. CASE adc'[d] = new
      BY <1>2, <3>2
    <3> QED BY <2>3, <3>1, <3>2
  <2> QED BY <2>2, <2>4 DEF AdcStep
<1> QED BY <1>1, <1>2

\* A controller that reads or forgets one configuration.
LEMMA ItemsKept ==
  ASSUME IInv, NEW c \in Clusters, NEW a, Undoable(a), items' = [items EXCEPT ![c] = a]
  PROVE  ItemsStep
<1>1. items \in [Clusters -> Configs] /\ a \in Configs
  BY DEF IInv, TypeOK, Undoable
<1>2. items' \in [Clusters -> Configs]
  BY <1>1
<1>3. ASSUME NEW d \in Clusters PROVE Undoable(items'[d])
  <2>1. items'[d] = items[d] \/ items'[d] = a
    BY <1>1
  <2>2. Undoable(items[d])
    BY DEF IInv, Owned
  <2>3. CASE items'[d] = items[d]
    BY <2>2, <2>3
  <2>4. CASE items'[d] = a
    BY <2>4
  <2> QED BY <2>1, <2>3, <2>4
<1> QED BY <1>2, <1>3 DEF ItemsStep

\* At first there is no configuration.
LEMMA ImagesInit == Init => IInv
<1> SUFFICES ASSUME Init PROVE IInv
  OBVIOUS
<1> USE ImagesAssumption
<1>1. None \in Images /\ None.host = "none"
  BY DEF Images, None
<1>2. Undoable(NoConfig) /\ NoConfig \in Configs
  BY NothingUndoable DEF Undoable
<1>3. adc = NoConfigs /\ items = NoConfigs /\ existing = NoConfig
  BY DEF Init
<1>4. NoConfigs \in [Clusters -> Configs] /\ \A c \in Clusters : NoConfigs[c] = NoConfig
  BY <1>2 DEF NoConfigs
<1>5. /\ Owned /\ adc \in [Clusters -> Configs]
      /\ existing \in Configs /\ items \in [Clusters -> Configs]
  BY <1>2, <1>3, <1>4 DEF Owned
<1>6. addon \in [Clusters -> {"absent", "bare", "ref"}]
  BY DEF Init
<1>7. NoRegistry \in RegistryStates /\ Established \in RegistryStates
  BY DEF NoRegistry, Established, RegistryStates
<1>8. reg \in [Registries -> RegistryStates]
  BY <1>7 DEF Init
<1>9. hub \in HubPasses /\ hub.pc = "idle"
  BY DEF Init, HubIdle, HubPasses
<1>10. worker \in WorkerPasses /\ worker.pc = "idle"
  BY <1>7 DEF Init, WorkerIdle, WorkerPasses
<1>11. principal = 0 /\ skip = FALSE /\ changes = 0 /\ faults = 0
  BY DEF Init
<1>12. principal \in 0..MaxVersion /\ changes \in 0..MaxChanges /\ faults \in 0..MaxFaults
  BY <1>11 DEF ImagesAssumption
<1>13. skip \in BOOLEAN
  BY <1>11, Zenon
<1> QED BY <1>12, <1>13, <1>5, <1>6, <1>8, <1>9, <1>10 DEF IInv, TypeOK

\* A step keeps the invariant if it keeps what each variable is part of.
LEMMA StepsTogether ==
  ASSUME AdcStep, ItemsStep, ExistingStep, AddonStep, RegStep, UsersStep, HubStep, WorkerStep,
         BoundsStep
  PROVE  IInv'
<1>1. Owned' /\ existing' \in Configs
  BY DEF AdcStep, ItemsStep, ExistingStep, Owned, Undoable
<1> QED BY <1>1 DEF AdcStep, ItemsStep, AddonStep, RegStep, UsersStep, HubStep, WorkerStep,
                    BoundsStep, IInv, TypeOK

\* What a step leaves alone stays as it is.
LEMMA StepFrames ==
  ASSUME IInv
  PROVE  /\ UNCHANGED adc => AdcStep
         /\ UNCHANGED items => ItemsStep
         /\ UNCHANGED existing => ExistingStep
         /\ UNCHANGED adcs => AdcStep /\ ItemsStep /\ ExistingStep
         /\ UNCHANGED addon => AddonStep
         /\ UNCHANGED reg => RegStep
         /\ UNCHANGED users => UsersStep
         /\ UNCHANGED hub => HubStep
         /\ UNCHANGED worker => WorkerStep
         /\ UNCHANGED bounds => BoundsStep
<1>1. UNCHANGED adc => AdcStep
  BY DEF IInv, TypeOK, Owned, AdcStep
<1>8. UNCHANGED items => ItemsStep
  BY DEF IInv, TypeOK, Owned, ItemsStep
<1>9. UNCHANGED existing => ExistingStep
  BY DEF IInv, TypeOK, Owned, ExistingStep
<1>10. UNCHANGED adcs => UNCHANGED adc /\ UNCHANGED items /\ UNCHANGED existing
  BY DEF adcs
<1>2. UNCHANGED addon => AddonStep
  BY DEF IInv, TypeOK, AddonStep
<1>3. UNCHANGED reg => RegStep
  BY DEF IInv, TypeOK, RegStep
<1>4. UNCHANGED users => UsersStep
  BY DEF IInv, TypeOK, users, UsersStep
<1>5. UNCHANGED hub => HubStep
  BY DEF IInv, TypeOK, HubStep
<1>6. UNCHANGED worker => WorkerStep
  BY DEF IInv, TypeOK, WorkerStep
<1>7. UNCHANGED bounds => BoundsStep
  BY DEF IInv, TypeOK, bounds, BoundsStep
<1> QED BY <1>1, <1>2, <1>3, <1>4, <1>5, <1>6, <1>7, <1>8, <1>9, <1>10

\* The bounds are kept by whatever consumes them.
LEMMA BoundsKept ==
  ASSUME IInv,
         \/ Change /\ UNCHANGED faults
         \/ UNCHANGED changes /\ (Fault \/ Succeed)
  PROVE  BoundsStep
BY ImagesAssumption DEF IInv, TypeOK, Change, Fault, Succeed, BoundsStep

\* A write of one ManagedClusterAddOn.
LEMMA AddonsKept ==
  ASSUME IInv, NEW c \in Clusters, NEW s \in {"absent", "bare", "ref"},
         addon' = [addon EXCEPT ![c] = s]
  PROVE  AddonStep
BY DEF IInv, TypeOK, AddonStep

\* A write of one ManagedClusterImageRegistry.
LEMMA RegsKept ==
  ASSUME IInv, NEW r \in Registries, NEW s \in RegistryStates, reg' = [reg EXCEPT ![r] = s]
  PROVE  RegStep
BY DEF IInv, TypeOK, RegStep

\* Users: none of them writes a configuration.
LEMMA ImagesUsers == IInv /\ Users => IInv'
<1> SUFFICES ASSUME IInv, Users PROVE IInv'
  OBVIOUS
<1>1. CASE PrincipalMoves
  <2>1. UsersStep
    BY <1>1 DEF PrincipalMoves, IInv, TypeOK, UsersStep
  <2> QED BY <1>1, <2>1, StepFrames, BoundsKept, StepsTogether DEF PrincipalMoves
<1>2. CASE ToggleSkip
  <2>1. UsersStep
    BY <1>2 DEF ToggleSkip, IInv, TypeOK, UsersStep
  <2> QED BY <1>2, <2>1, StepFrames, BoundsKept, StepsTogether DEF ToggleSkip
<1>3. ASSUME NEW c \in Clusters, RemoveAddon(c) PROVE IInv'
  <2>1. AddonStep
    BY <1>3, AddonsKept DEF RemoveAddon
  <2> QED BY <1>3, <2>1, StepFrames, BoundsKept, StepsTogether DEF RemoveAddon
<1>4. ASSUME NEW r \in Registries, EditRegistry(r) PROVE IInv'
  <2>1. reg[r] \in RegistryStates /\ Established \in RegistryStates
    BY DEF IInv, TypeOK, RegistryStates, Established
  <2>2. PICK s \in RegistryStates : reg' = [reg EXCEPT ![r] = s]
    <3>1. CASE reg' = [reg EXCEPT ![r] = [Established EXCEPT !.fin = FALSE]]
      BY <2>1, <3>1 DEF RegistryStates
    <3>2. CASE reg' = [reg EXCEPT ![r].opted = ~@]
      BY <2>1, <3>2 DEF RegistryStates
    <3>3. CASE reg' = [reg EXCEPT ![r].maps = ~@]
      BY <2>1, <3>3 DEF RegistryStates
    <3>4. ASSUME NEW c \in Clusters,
                 reg' = [reg EXCEPT ![r].selects = IF c \in @ THEN @ \ {c} ELSE @ \cup {c}]
          PROVE \E s \in RegistryStates : reg' = [reg EXCEPT ![r] = s]
      <4> DEFINE t == [reg[r] EXCEPT !.selects = IF c \in @ THEN @ \ {c} ELSE @ \cup {c}]
      <4>1. reg' = [reg EXCEPT ![r] = t]
        BY <3>4
      <4>2. t \in RegistryStates
        BY <2>1 DEF RegistryStates
      <4> HIDE DEF t
      <4> QED BY <4>1, <4>2
    <3> QED BY <1>4, <3>1, <3>2, <3>3, <3>4, Zenon DEF EditRegistry
  <2>3. RegStep
    BY <2>2, RegsKept
  <2> QED BY <1>4, <2>3, StepFrames, BoundsKept, StepsTogether DEF EditRegistry
<1>5. ASSUME NEW r \in Registries, DeleteRegistry(r) PROVE IInv'
  <2>1. reg[r] \in RegistryStates /\ NoRegistry \in RegistryStates
    BY DEF IInv, TypeOK, RegistryStates, NoRegistry
  <2> DEFINE s == IF reg[r].fin THEN [reg[r] EXCEPT !.deleting = TRUE] ELSE NoRegistry
  <2>2. s \in RegistryStates
    BY <2>1 DEF RegistryStates
  <2>3. reg' = [reg EXCEPT ![r] = s]
    BY <1>5 DEF DeleteRegistry
  <2> HIDE DEF s
  <2>4. RegStep
    BY <2>2, <2>3, RegsKept
  <2> QED BY <1>5, <2>4, StepFrames, BoundsKept, StepsTogether DEF DeleteRegistry
<1> QED BY <1>1, <1>2, <1>3, <1>4, <1>5 DEF Users

-----------------------------------------------------------------------------
(* The two controllers. *)

\* The GitOpsCluster controller: a configuration is read, then written, then the addon made.
LEMMA ImagesHub == IInv /\ Hub => IInv'
<1> SUFFICES ASSUME IInv, Hub PROVE IInv'
  OBVIOUS
<1>1. CASE HealAgentVersionDrift
  <2>1. HubStep
    BY <1>1, ImagesAssumption DEF HealAgentVersionDrift, IInv, TypeOK, HubPasses, HubStep
  <2> QED BY <1>1, <2>1, StepFrames, BoundsKept, StepsTogether
          DEF HealAgentVersionDrift, HubUnchanged
<1>2. ASSUME NEW c \in Clusters, GetAddOnDeploymentConfig(c) PROVE IInv'
  <2>1. ExistingStep
    <3>1. existing' = adc[c] \/ UNCHANGED existing
      BY <1>2 DEF GetAddOnDeploymentConfig
    <3> QED BY <3>1 DEF IInv, Owned, ExistingStep
  <2>2. HubStep
    BY <1>2 DEF GetAddOnDeploymentConfig, IInv, TypeOK, HubPasses, HubStep
  <2> QED BY <1>2, <2>1, <2>2, StepFrames, BoundsKept, StepsTogether
          DEF GetAddOnDeploymentConfig, HubUnchanged
<1>3. CASE CreateAddOnDeploymentConfig
  <2> DEFINE new == Configured(existing)
  <2>1. Undoable(new)
    BY ConfiguredUndoable DEF IInv, TypeOK, Owned
  <2>2. hub.at \in Clusters
    BY <1>3 DEF CreateAddOnDeploymentConfig, IInv, TypeOK
  <2> HIDE DEF new
  <2>3. Write(hub.at, new, existing) \/ UNCHANGED adc
    BY <1>3 DEF CreateAddOnDeploymentConfig, new
  <2>4. AdcStep
    BY <2>1, <2>2, <2>3, WriteOwned
  <2>5. ExistingStep
    BY <1>3, NothingUndoable DEF CreateAddOnDeploymentConfig, ExistingStep
  <2>6. HubStep
    BY <1>3, <2>2 DEF CreateAddOnDeploymentConfig, IInv, TypeOK, HubPasses, HubStep
  <2>7. Fault \/ Succeed
    BY <1>3 DEF CreateAddOnDeploymentConfig
  <2> QED BY <1>3, <2>4, <2>5, <2>6, <2>7, StepFrames, BoundsKept, StepsTogether
          DEF CreateAddOnDeploymentConfig, HubUnchanged
<1>4. CASE EnsureManagedClusterAddon
  <2>1. AddonStep
    <3>1. hub.at \in Clusters
      BY <1>4 DEF EnsureManagedClusterAddon, IInv, TypeOK
    <3>2. UNCHANGED addon \/ addon' = [addon EXCEPT ![hub.at] = "ref"]
      BY <1>4 DEF EnsureManagedClusterAddon
    <3> QED BY <3>1, <3>2, StepFrames, AddonsKept
  <2>2. HubStep
    <3>1. HubIdle \in HubPasses /\ HubIdle.pc = "idle"
      BY ImagesAssumption DEF HubIdle, HubPasses
    <3>2. CASE hub' = HubIdle
      BY <3>1, <3>2 DEF HubStep
    <3>3. CASE hub' = [hub EXCEPT !.pc = "configs", !.at = "none"]
      BY <3>3 DEF IInv, TypeOK, HubPasses, HubStep
    <3> QED BY <1>4, <3>2, <3>3, Zenon DEF EnsureManagedClusterAddon
  <2> QED BY <1>4, <2>1, <2>2, StepFrames, BoundsKept, StepsTogether
          DEF EnsureManagedClusterAddon, HubUnchanged
<1> QED BY <1>1, <1>2, <1>3, <1>4 DEF Hub

\* A pass of the image registry controller begins, or adds the finalizer.
LEMMA ImagesReconcile ==
  ASSUME IInv, NEW r \in Registries, Reconcile(r)
  PROVE  IInv'
<1>1. reg[r] \in RegistryStates
  BY DEF IInv, TypeOK
<1>2. RegStep
  <2>1. reg' = reg \/ reg' = [reg EXCEPT ![r].fin = TRUE]
    BY DEF Reconcile
  <2>2. [reg[r] EXCEPT !.fin = TRUE] \in RegistryStates
    BY <1>1 DEF RegistryStates
  <2>3. reg \in [Registries -> RegistryStates]
    BY DEF IInv, TypeOK
  <2> QED BY <2>1, <2>2, <2>3 DEF RegStep
<1>3. WorkerStep
  <2> DEFINE p(pc) == [pc |-> pc, r |-> r, view |-> reg[r], todo |-> Selected(r), got |-> {},
                       errs |-> FALSE]
             q(pc) == [p(pc) EXCEPT !.todo = {}, !.view.selects = {}]
  <2>1. worker' = p("revert") \/ worker' = q("revert") \/ worker' = p("apply")
        \/ worker' = worker
    BY DEF Reconcile
  <2>2. ASSUME NEW pc \in {"revert", "apply"}
        PROVE  p(pc) \in WorkerPasses /\ p(pc).r \in Registries
    BY <1>1 DEF Selected, RegistryStates, WorkerPasses
  <2>3. q("revert") \in WorkerPasses /\ q("revert").r \in Registries
    BY <1>1 DEF RegistryStates, WorkerPasses
  <2> HIDE DEF p, q
  <2> QED BY <2>1, <2>2, <2>3 DEF IInv, TypeOK, WorkerStep
<1> QED BY <1>2, <1>3, StepFrames, BoundsKept, StepsTogether DEF Reconcile, WorkerUnchanged

\* The next cluster is taken up, by a pass that is under way.
LEMMA HandledTyped ==
  ASSUME IInv, worker.pc # "idle", NEW c \in Clusters, NEW e \in BOOLEAN, Handled(c, e)
  PROVE  WorkerStep /\ ItemsStep
<1>1. WorkerStep
  BY DEF IInv, TypeOK, Handled, WorkerPasses, WorkerStep
<1>2. ItemsStep
  BY ItemsKept, NothingUndoable DEF Handled
<1> QED BY <1>1, <1>2

\* An update of what was read, from whatever is undoable.
LEMMA UpdateTyped ==
  ASSUME IInv, worker.pc # "idle", NEW c \in Clusters, NEW new, Undoable(new), Update(c, new)
  PROVE  AdcStep /\ ItemsStep /\ WorkerStep /\ (Fault \/ Succeed)
<1>1. AdcStep
  <2>1. Write(c, new, items[c]) \/ UNCHANGED adc
    BY DEF Update
  <2> QED BY <2>1, WriteOwned
<1>2. \E e \in BOOLEAN : Handled(c, e)
  BY DEF Update
<1>3. ItemsStep /\ WorkerStep
  BY <1>2, HandledTyped
<1>4. Fault \/ Succeed
  BY DEF Update
<1> QED BY <1>1, <1>3, <1>4

\* A revert writes what is undoable, or nothing.
LEMMA RevertTyped ==
  ASSUME IInv, worker.pc # "idle", NEW c \in Clusters, Revert(c)
  PROVE  AdcStep /\ ItemsStep /\ WorkerStep /\ (Fault \/ Succeed)
<1>1. Undoable(Reverted(items[c]))
  BY RevertedUndoable DEF IInv, Owned
<1>2. CASE Update(c, Reverted(items[c]))
  BY <1>1, <1>2, UpdateTyped
<1>3. CASE UNCHANGED adc /\ Handled(c, FALSE) /\ Succeed
  BY <1>3, HandledTyped, StepFrames
<1> QED BY <1>2, <1>3 DEF Revert

\* The image registry controller: every step of a pass, failures included.
LEMMA ImagesWorker == IInv /\ Worker => IInv'
<1> SUFFICES ASSUME IInv, Worker PROVE IInv'
  OBVIOUS
<1>1. CASE ApplyEnds
  <2>1. WorkerStep
    BY <1>1 DEF ApplyEnds, WorkerIdle, NoRegistry, RegistryStates, WorkerPasses, WorkerStep
  <2> QED BY <1>1, <2>1, StepFrames, BoundsKept, StepsTogether DEF ApplyEnds, WorkerUnchanged
<1>2. CASE ScanBegins
  <2>1. worker \in WorkerPasses /\ worker.r \in Registries
    BY <1>2 DEF ScanBegins, IInv, TypeOK
  <2> DEFINE rest == Clusters \ worker.view.selects
             w == [worker EXCEPT !.pc = "scan", !.todo = rest, !.got = rest]
             v == [worker EXCEPT !.pc = "scan", !.errs = TRUE]
  <2>2. /\ w \in WorkerPasses /\ w.r \in Registries
        /\ v \in WorkerPasses /\ v.r \in Registries
    BY <2>1 DEF WorkerPasses
  <2>3. /\ worker' = w \/ worker' = v
        /\ \/ items' = [c \in Clusters |-> IF c \in rest THEN adc[c] ELSE NoConfig]
           \/ UNCHANGED items
    BY <1>2 DEF ScanBegins
  <2> HIDE DEF rest, w, v
  <2>4. WorkerStep
    BY <2>2, <2>3 DEF WorkerStep
  <2>5. ItemsStep
    <3>1. CASE UNCHANGED items
      BY <3>1, StepFrames
    <3>2. CASE items' = [c \in Clusters |-> IF c \in rest THEN adc[c] ELSE NoConfig]
      <4>1. ASSUME NEW c \in Clusters PROVE Undoable(items'[c])
        <5>1. Undoable(adc[c]) /\ Undoable(NoConfig)
          BY NothingUndoable DEF IInv, Owned
        <5>2. items'[c] = adc[c] \/ items'[c] = NoConfig
          BY <3>2
        <5>3. CASE items'[c] = adc[c]
          BY <5>1, <5>3
        <5>4. CASE items'[c] = NoConfig
          BY <5>1, <5>4
        <5> QED BY <5>2, <5>3, <5>4
      <4>2. items' = [c \in Clusters |-> items'[c]]
        BY <3>2
      <4>3. \A c \in Clusters : items'[c] \in Configs
        BY <4>1 DEF Undoable
      <4> QED BY <4>1, <4>2, <4>3 DEF ItemsStep
    <3> QED BY <2>3, <3>1, <3>2
  <2> QED BY <1>2, <2>4, <2>5, StepFrames, BoundsKept, StepsTogether
          DEF ScanBegins, WorkerUnchanged
<1>3. CASE RemoveFinalizer
  <2>1. WorkerStep
    BY <1>3 DEF RemoveFinalizer, WorkerIdle, NoRegistry, RegistryStates, WorkerPasses, WorkerStep
  <2>2. worker.r \in Registries
    BY <1>3 DEF RemoveFinalizer, IInv, TypeOK
  <2>3. reg[worker.r] \in RegistryStates /\ NoRegistry \in RegistryStates
    BY <2>2 DEF IInv, TypeOK, RegistryStates, NoRegistry
  <2> DEFINE s == IF reg[worker.r].deleting THEN NoRegistry ELSE [reg[worker.r] EXCEPT !.fin = FALSE]
  <2>4. s \in RegistryStates
    BY <2>3 DEF RegistryStates
  <2>5. UNCHANGED reg \/ reg' = [reg EXCEPT ![worker.r] = s]
    BY <1>3 DEF RemoveFinalizer
  <2> HIDE DEF s
  <2>6. RegStep
    BY <2>2, <2>4, <2>5, StepFrames, RegsKept
  <2> QED BY <1>3, <2>1, <2>6, StepFrames, BoundsKept, StepsTogether
          DEF RemoveFinalizer, WorkerUnchanged
<1>4. ASSUME NEW c \in Clusters, FindGitOpsAddonDeploymentConfig(c) PROVE IInv'
  <2>1. worker.pc # "idle"
    BY <1>4 DEF FindGitOpsAddonDeploymentConfig
  <2>2. WorkerStep /\ ItemsStep
    <3>1. CASE \E e \in BOOLEAN : Handled(c, e)
      BY <2>1, <3>1, HandledTyped
    <3>2. CASE worker' = [worker EXCEPT !.got = {c}] /\ items' = [items EXCEPT ![c] = adc[c]]
      <4>1. Undoable(adc[c])
        BY DEF IInv, Owned
      <4>2. ItemsStep
        BY <3>2, <4>1, ItemsKept
      <4>3. WorkerStep
        BY <3>2 DEF IInv, TypeOK, WorkerPasses, WorkerStep
      <4> QED BY <4>2, <4>3
    <3> QED BY <1>4, <3>1, <3>2 DEF FindGitOpsAddonDeploymentConfig
  <2>3. Fault \/ Succeed
    BY <1>4 DEF FindGitOpsAddonDeploymentConfig
  <2> QED BY <1>4, <2>2, <2>3, StepFrames, BoundsKept, StepsTogether
          DEF FindGitOpsAddonDeploymentConfig, WorkerUnchanged
<1>5. ASSUME NEW c \in Clusters, ApplyImageMirroring(c) PROVE IInv'
  <2>1. worker.pc # "idle" /\ worker \in WorkerPasses /\ worker.r \in Registries
    BY <1>5 DEF ApplyImageMirroring, IInv, TypeOK
  <2>2. AdcStep /\ ItemsStep /\ WorkerStep /\ (Fault \/ Succeed)
    <3>1. CASE Manageable(items[c]) /\ Update(c, Updated(items[c]))
      <4>1. Undoable(Updated(items[c]))
        BY <2>1, <3>1, UpdatedUndoable DEF IInv, Owned
      <4> QED BY <2>1, <3>1, <4>1, UpdateTyped
    <3>2. CASE UNCHANGED adc /\ Handled(c, TRUE) /\ Succeed
      BY <2>1, <3>2, HandledTyped, StepFrames
    <3> QED BY <1>5, <3>1, <3>2 DEF ApplyImageMirroring
  <2> QED BY <1>5, <2>2, StepFrames, BoundsKept, StepsTogether
          DEF ApplyImageMirroring, WorkerUnchanged
<1>6. ASSUME NEW c \in Clusters, RevertClusterImageMirroring(c) PROVE IInv'
  <2>1. AdcStep /\ ItemsStep /\ WorkerStep /\ (Fault \/ Succeed)
    BY <1>6, RevertTyped DEF RevertClusterImageMirroring
  <2> QED BY <1>6, <2>1, StepFrames, BoundsKept, StepsTogether
          DEF RevertClusterImageMirroring, WorkerUnchanged
<1>7. ASSUME NEW c \in Clusters, RevertScanned(c) PROVE IInv'
  <2>1. AdcStep /\ ItemsStep /\ WorkerStep /\ (Fault \/ Succeed)
    BY <1>7, RevertTyped DEF RevertScanned
  <2> QED BY <1>7, <2>1, StepFrames, BoundsKept, StepsTogether DEF RevertScanned, WorkerUnchanged
<1> QED BY <1>1, <1>2, <1>3, <1>4, <1>5, <1>6, <1>7 DEF Worker

\* Nothing that is not undoable is ever read or written: not by the steps of the controllers,
\* nor by users or a restart.
LEMMA ImagesNext == IInv /\ [Next]_vars => IInv'
<1> SUFFICES ASSUME IInv, [Next]_vars PROVE IInv'
  OBVIOUS
<1>1. CASE Users
  BY <1>1, ImagesUsers
<1>2. CASE Hub
  BY <1>2, ImagesHub
<1>3. CASE Worker
  BY <1>3, ImagesWorker
<1>4. CASE Restart
  <2>1. AdcStep /\ ItemsStep /\ ExistingStep
    <3>1. ExistingStep
      BY <1>4, NothingUndoable DEF Restart, ExistingStep
    <3>2. items' = NoConfigs /\ NoConfig \in Configs
      BY <1>4, NothingUndoable DEF Restart, Undoable
    <3>3. ItemsStep
      BY <3>2, NothingUndoable DEF NoConfigs, ItemsStep
    <3>4. AdcStep
      BY <1>4, StepFrames DEF Restart
    <3> QED BY <3>1, <3>3, <3>4
  <2>2. HubStep
    BY <1>4, ImagesAssumption DEF Restart, HubIdle, HubPasses, HubStep
  <2>3. WorkerStep
    BY <1>4 DEF Restart, WorkerIdle, NoRegistry, RegistryStates, WorkerPasses, WorkerStep
  <2> QED BY <1>4, <2>1, <2>2, <2>3, StepFrames, BoundsKept, StepsTogether DEF Restart
<1>5. ASSUME NEW r \in Registries, Reconcile(r) PROVE IInv'
  BY <1>5, ImagesReconcile
<1>7. CASE UNCHANGED vars
  BY <1>7, StepFrames, StepsTogether DEF vars
<1> QED BY <1>1, <1>2, <1>3, <1>4, <1>5, <1>7 DEF Next

-----------------------------------------------------------------------------
\* A configuration is at any time one whose mirroring can be undone, in the cluster as in what
\* the controllers have read of it: what updateAddOnDeploymentConfig records is read back by
\* itself, by the revert and by the GitOpsCluster controller, each from a copy that may be old.
THEOREM ImagesInvariant == Spec => []IInv
BY ImagesInit, ImagesNext, PTL DEF Spec

\* The configurations, the registries and both controllers' passes have their types.
THEOREM ImagesTypeCorrect == Spec => []TypeOK
<1>1. IInv => TypeOK
  BY DEF IInv
<1> QED BY <1>1, ImagesInvariant, PTL

\* The original that updateAddOnDeploymentConfig records is a source image, and it is recorded
\* exactly while a registry's name is, whatever sequence of registries, passes of the
\* GitOpsCluster controller, failures and restarts went over the configuration.
THEOREM ImagesOriginalsAreSources == Spec => []OriginalsAreSources
<1>1. IInv => OriginalsAreSources
  BY DEF IInv, Owned, Undoable, OriginalsAreSources
<1> QED BY <1>1, ImagesInvariant, PTL
==============================================================================
