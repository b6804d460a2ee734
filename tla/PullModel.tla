------------------------------ MODULE PullModel ------------------------------
(***************************************************************************)
(* The propagation controller of the basic pull model: it wraps a hub      *)
(* Application in a ManifestWork of the managed cluster the Application is *)
(* annotated with, and the work agent of that cluster applies it.  Pods    *)
(* run without leader election, so that those of a rolling restart         *)
(* overlap.  Each call to the API server is a step; the client does not    *)
(* cache.  The work queue handles one event of an Application at a time,   *)
(* and Applications share nothing but the configuration: one Application,  *)
(* from its creation to its deletion, is modelled.                         *)
(***************************************************************************)
EXTENDS Naturals, FiniteSets

CONSTANTS
  Pods,         \* pods of the propagation controller, in any generation
  Clusters,     \* managed clusters
  MaxAlive,     \* pods that may be alive together: 2 in a rolling restart
  Churn,        \* the kinds of change users make
  Finalizers,   \* whether the Application starts with the resources finalizer
  Configs,      \* contents of multicluster-integrations-config at the start
  MaxChanges,   \* bound: changes by users
  MaxFaults,    \* bound: failed API calls
  MaxStops      \* bound: pods that stop or die

ASSUME PullAssumption ==
  /\ MaxAlive \in Nat /\ MaxChanges \in Nat /\ MaxFaults \in Nat /\ MaxStops \in Nat
  /\ Finalizers \subseteq BOOLEAN
  /\ Configs \subseteq {"absent", "enabled", "disabled"}

VARIABLES
  hub,       \* the hub's Application
  present,   \* ManagedClusters that exist
  bound,     \* clusters selected by a PlacementDecision of the Application's namespace
  config,    \* multicluster-integrations-config
  works,     \* the Application's ManifestWork in the namespace of each cluster
  spoke,     \* the delivered Application on each managed cluster
  phase,     \* life of a pod
  dirty,     \* an event of the Application waits in the pod's queue
  pc,        \* where the pod's worker is
  app,       \* the Application the worker has read
  appFresh,  \* its resourceVersion is still the current one
  workSeen,  \* whether the worker found a ManifestWork
  workFresh, \* the resourceVersion of that ManifestWork is still the current one
  toSweep,   \* ManifestWorks the start-up sweep has still to visit
  missed,    \* the sweep failed on some ManifestWork
  carried,   \* history: <<cluster, operation>> some ManifestWork carried
  frozen,    \* history: a sweep was completed and the pull model disabled since
  changes, faults, stops     \* consumption of the bounds

workerVars == <<pc, app, workSeen>>
podVars    == <<phase, toSweep, missed>>
bounds     == <<changes, stops>>           \* all but faults
vars       == <<hub, present, bound, config, works, spoke, podVars, dirty, workerVars,
                appFresh, workFresh, carried, frozen, bounds, faults>>

-----------------------------------------------------------------------------
(* Spec versions and operations are counted by changes; operation 0 is none.  The *)
(* refresh annotation is treated by the code like the operation.                  *)

Application == [exists : BOOLEAN, deleting : BOOLEAN, finalizer : BOOLEAN,
                labelled : BOOLEAN,      \* the pull label
                cluster : Clusters,      \* annotation ocm-managed-cluster
                ver : Nat, op : Nat,
                inCluster : BOOLEAN]     \* destination overwritten by the controller's
Work        == [state : {"none", "live", "deleting"}, ver : Nat, op : Nat, readOnly : BOOLEAN]
Delivered   == [ver : Nat, ran : SUBSET Nat]

NoWork      == [state |-> "none", ver |-> 0, op |-> 0, readOnly |-> FALSE]
NoDelivery  == [ver |-> 0, ran |-> {}]

Alive == {p \in Pods : phase[p] # "down"}

\* Every running pod has an informer; the predicates look at label and annotation
\* only, so that any write of a labelled Application is an event.
Enqueue(a) == dirty' = [p \in Pods |-> dirty[p] \/ (phase[p] = "up" /\ a.labelled)]

\* A write of the Application or of a ManifestWork makes the versions read before stale.
WriteHub(a) ==
  /\ hub' = a
  /\ appFresh' = [p \in Pods |-> FALSE]
  /\ Enqueue(a)

StaleWork(c) == workFresh' = [p \in Pods |-> workFresh[p] /\ app[p].cluster # c]

WriteWork(c, w) == works' = [works EXCEPT ![c] = w] /\ StaleWork(c)

Fault   == faults < MaxFaults /\ faults' = faults + 1
Succeed == UNCHANGED faults

Init ==
  /\ hub \in [exists : {TRUE}, deleting : {FALSE}, finalizer : Finalizers,
              labelled : {TRUE}, cluster : Clusters, ver : {1}, op : {0},
              inCluster : {FALSE}]
  /\ present = Clusters /\ bound = Clusters
  /\ config \in Configs
  /\ works = [c \in Clusters |-> NoWork]
  /\ spoke = [c \in Clusters |-> NoDelivery]
  /\ phase = [p \in Pods |-> "down"] /\ toSweep = [p \in Pods |-> {}]
  /\ missed = [p \in Pods |-> FALSE]
  /\ dirty = [p \in Pods |-> FALSE]
  /\ pc = [p \in Pods |-> "idle"] /\ app = [p \in Pods |-> hub]
  /\ workSeen = [p \in Pods |-> FALSE]
  /\ appFresh = [p \in Pods |-> FALSE] /\ workFresh = [p \in Pods |-> FALSE]
  /\ carried = {} /\ frozen = FALSE
  /\ changes = 0 /\ faults = 0 /\ stops = 0

-----------------------------------------------------------------------------
(* Users, the placement, and the hub's other controllers. *)

Change(kind) == kind \in Churn /\ changes < MaxChanges /\ changes' = changes + 1

UserUnchanged == UNCHANGED <<spoke, podVars, workerVars, carried, stops, faults>>

\* A user, or the ApplicationSet controller, writes the Application: a new spec, an
\* operation, another cluster, the pull label, or (through the status) nothing of it.
EditApplication ==
  /\ hub.exists
  /\ \/ /\ Change("spec")
        /\ WriteHub([hub EXCEPT !.ver = changes' + 1, !.inCluster = FALSE])
     \/ Change("operation") /\ WriteHub([hub EXCEPT !.op = changes'])
     \/ /\ Change("move")
        /\ \E c \in Clusters \ {hub.cluster} : WriteHub([hub EXCEPT !.cluster = c])
     \/ Change("label") /\ WriteHub([hub EXCEPT !.labelled = ~@])
     \/ Change("status") /\ WriteHub(hub)
  /\ UNCHANGED <<present, bound, config, works, workFresh, frozen>>
  /\ UserUnchanged

\* Without a finalizer the Application is gone at once.
DeleteApplication ==
  /\ Change("delete") /\ hub.exists /\ ~hub.deleting
  /\ WriteHub([hub EXCEPT !.exists = hub.finalizer, !.deleting = TRUE])
  /\ UNCHANGED <<present, bound, config, works, workFresh, frozen>>
  /\ UserUnchanged

\* PlacementDecisions are not watched by this controller.
EditPlacement(c) ==
  /\ Change("placement")
  /\ bound' = IF c \in bound THEN bound \ {c} ELSE bound \cup {c}
  /\ UNCHANGED <<hub, present, config, works, dirty, appFresh, workFresh, frozen>>
  /\ UserUnchanged

\* A managed cluster is detached; its namespace goes with all ManifestWorks.
DetachCluster(c) ==
  /\ Change("detach") /\ c \in present
  /\ present' = present \ {c} /\ bound' = bound \ {c}
  /\ WriteWork(c, NoWork)
  /\ UNCHANGED <<hub, config, dirty, appFresh, frozen>>
  /\ UserUnchanged

EditConfig ==
  /\ Change("config")
  /\ config' \in {"enabled", "disabled"} \ {config}
  /\ frozen' = FALSE
  /\ UNCHANGED <<hub, present, bound, works, dirty, appFresh, workFresh>>
  /\ UserUnchanged

Users == \/ EditApplication \/ DeleteApplication \/ EditConfig
         \/ \E c \in Clusters : EditPlacement(c) \/ DetachCluster(c)

-----------------------------------------------------------------------------
(* The work agent of a managed cluster: external, modelled from the strategy the  *)
(* controller gives it.  ReadOnly is not enforced; an operation the agent applied  *)
(* once is not applied again (IgnoreFields, OnSpokeChange).                        *)

Delivery(c) == [ver |-> works[c].ver,
                ran |-> spoke[c].ran \cup ({works[c].op} \ {0})]

Apply(c) ==
  /\ works[c].state = "live" /\ ~works[c].readOnly
  /\ spoke[c] # Delivery(c)
  /\ spoke' = [spoke EXCEPT ![c] = Delivery(c)]
  /\ StaleWork(c)                    \* its status is written
  /\ UNCHANGED <<hub, present, bound, config, works, podVars, dirty, workerVars, appFresh,
                 carried, frozen, bounds, faults>>

\* A deleted ManifestWork goes once the agent has removed what it delivered.
Retire(c) ==
  /\ works[c].state = "deleting"
  /\ WriteWork(c, NoWork)
  /\ spoke' = [spoke EXCEPT ![c].ver = 0]
  /\ UNCHANGED <<hub, present, bound, config, podVars, dirty, workerVars, appFresh, carried,
                 frozen, bounds, faults>>

Agents == \E c \in Clusters : Apply(c) \/ Retire(c)

-----------------------------------------------------------------------------
(* The life of a pod: main, and SweepManifestWorksToReadOnly. *)

PodUnchanged == UNCHANGED <<hub, present, bound, spoke, workerVars, appFresh, carried,
                            changes>>

Start(p) ==
  /\ phase[p] = "down" /\ Cardinality(Alive) < MaxAlive
  /\ phase' = [phase EXCEPT ![p] = "boot"]
  /\ PodUnchanged
  /\ UNCHANGED <<config, works, toSweep, missed, dirty, workFresh, frozen, stops, faults>>

\* The manager starts: the informer's first list is one event.
Up(p) == /\ phase' = [phase EXCEPT ![p] = "up"]
         /\ dirty' = [dirty EXCEPT ![p] = hub.exists /\ hub.labelled]

\* Whether a configuration that was read lets the controller work.
ConfigAllows(c) == c # "disabled"

\* [Mutant] The configuration is created without its defaults.
LoadConfigEmpty == config' = IF config = "absent" THEN "empty" ELSE config

\* LoadOrCreate: an absent configuration is created with the defaults.
LoadConfig == config' = IF config = "absent" THEN "enabled" ELSE config

\* A configuration that cannot be read counts as enabled.
Boot(p) ==
  /\ phase[p] = "boot"
  /\ \/ LoadConfig /\ ConfigAllows(config) /\ Succeed /\ Up(p)
     \/ /\ ~ConfigAllows(config) /\ Succeed /\ UNCHANGED <<config, dirty>>
        /\ phase' = [phase EXCEPT ![p] = "list"]
     \/ Fault /\ Up(p) /\ UNCHANGED config
  /\ PodUnchanged
  /\ UNCHANGED <<works, toSweep, missed, workFresh, frozen, stops>>

ListWorks(p) ==
  /\ phase[p] = "list"
  /\ \/ /\ Succeed /\ UNCHANGED dirty
        /\ toSweep' = [toSweep EXCEPT ![p] = {c \in Clusters : works[c].state # "none"}]
        /\ missed' = [missed EXCEPT ![p] = FALSE]
        /\ phase' = [phase EXCEPT ![p] = "sweep"]
     \/ Fault /\ Up(p) /\ UNCHANGED <<toSweep, missed>>
  /\ PodUnchanged
  /\ UNCHANGED <<config, works, workFresh, frozen, stops>>

\* [Mutant] The strategy is set on another manifest config.
ReadOnlyElsewhere(w) == w

SetReadOnly(w) == [w EXCEPT !.readOnly = TRUE]

\* Read again and updated, on conflict anew; one that fails is passed over.
SweepWork(p, c) ==
  /\ phase[p] = "sweep" /\ c \in toSweep[p]
  /\ \/ /\ works[c].state # "none" /\ Succeed
        /\ IF works[c].readOnly THEN UNCHANGED <<works, workFresh>>
                                ELSE WriteWork(c, SetReadOnly(works[c]))
        /\ UNCHANGED missed
     \/ /\ IF works[c].state = "none" THEN Succeed ELSE Fault
        /\ missed' = [missed EXCEPT ![p] = TRUE]
        /\ UNCHANGED <<works, workFresh>>
  /\ toSweep' = [toSweep EXCEPT ![p] = @ \ {c}]
  /\ PodUnchanged
  /\ UNCHANGED <<phase, config, dirty, frozen, stops>>

EndSweep(p) ==
  /\ phase[p] = "sweep" /\ toSweep[p] = {}
  /\ Up(p)
  /\ frozen' = (frozen \/ (config = "disabled" /\ ~missed[p]))
  /\ PodUnchanged
  /\ UNCHANGED <<config, works, toSweep, missed, workFresh, stops, faults>>

\* A pod dies, or is stopped at the end of a rolling restart.
Stop(p) ==
  /\ phase[p] # "down" /\ stops < MaxStops /\ stops' = stops + 1
  /\ phase' = [phase EXCEPT ![p] = "down"]
  /\ dirty' = [dirty EXCEPT ![p] = FALSE]
  /\ pc' = [pc EXCEPT ![p] = "idle"]
  /\ toSweep' = [toSweep EXCEPT ![p] = {}]
  /\ UNCHANGED <<hub, present, bound, config, works, spoke, missed, app, workSeen, appFresh,
                 workFresh, carried, frozen, changes, faults>>

-----------------------------------------------------------------------------
(* Reconcile. *)

Goto(p, label) == pc' = [pc EXCEPT ![p] = label]

\* The handler returns without error.
Done(p)  == Goto(p, "idle") /\ UNCHANGED dirty

\* [Mutant] The error is logged and not returned.
RetryNever(p) == Goto(p, "idle") /\ UNCHANGED dirty

\* It returns an error, and the event comes back.
Retry(p) == Goto(p, "idle") /\ dirty' = [dirty EXCEPT ![p] = TRUE]

ReadsUnchanged == UNCHANGED <<hub, present, bound, works, spoke, podVars, carried, frozen,
                              bounds>>

Take(p) ==
  /\ phase[p] = "up" /\ pc[p] = "idle" /\ dirty[p]
  /\ dirty' = [dirty EXCEPT ![p] = FALSE]
  /\ Goto(p, "load")
  /\ ReadsUnchanged
  /\ UNCHANGED <<config, app, workSeen, appFresh, workFresh, faults>>

\* The configuration is read live; disabled, the event is dropped.
ReadConfig(p) ==
  /\ pc[p] = "load"
  /\ \/ ConfigAllows(config) /\ LoadConfig /\ Succeed /\ Goto(p, "get")
     \/ ~ConfigAllows(config) /\ UNCHANGED config /\ Succeed /\ Goto(p, "idle")
     \/ Fault /\ UNCHANGED config /\ Goto(p, "get")
  /\ ReadsUnchanged
  /\ UNCHANGED <<dirty, app, workSeen, appFresh, workFresh>>

GetApplication(p) ==
  /\ pc[p] = "get"
  /\ \/ ~hub.exists /\ Succeed /\ Done(p) /\ UNCHANGED <<app, appFresh>>
     \/ /\ hub.exists /\ Succeed /\ UNCHANGED dirty
        /\ app' = [app EXCEPT ![p] = hub] /\ appFresh' = [appFresh EXCEPT ![p] = TRUE]
        /\ Goto(p, IF hub.deleting THEN "delete" ELSE "check")
     \/ Fault /\ Retry(p) /\ UNCHANGED <<app, appFresh>>
  /\ ReadsUnchanged
  /\ UNCHANGED <<config, workSeen, workFresh>>

\* The ManagedCluster must exist; if the namespace is not bound to it the event is
\* dropped; the payload needs the AppProject.
Check(p) ==
  /\ pc[p] = "check"
  /\ LET c == app[p].cluster IN
       \/ c \notin present /\ Succeed /\ Retry(p)
       \/ c \in present \ bound /\ Succeed /\ Done(p)
       \/ c \in present \cap bound /\ Succeed /\ Goto(p, "getwork") /\ UNCHANGED dirty
       \/ Fault /\ Retry(p)
  /\ ReadsUnchanged
  /\ UNCHANGED <<config, app, workSeen, appFresh, workFresh>>

GetWork(p) ==
  /\ pc[p] = "getwork"
  /\ \/ /\ Succeed /\ UNCHANGED dirty
        /\ workSeen' = [workSeen EXCEPT ![p] = works[app[p].cluster].state # "none"]
        /\ workFresh' = [workFresh EXCEPT ![p] = TRUE]
        /\ Goto(p, "write")
     \/ Fault /\ Retry(p) /\ UNCHANGED <<workSeen, workFresh>>
  /\ ReadsUnchanged
  /\ UNCHANGED <<config, app, appFresh>>

\* Update needs the version that was read, Create that there is none.
Writable(p) == LET c == app[p].cluster IN
  IF workSeen[p] THEN workFresh[p] /\ works[c].state # "none"
                 ELSE works[c].state = "none" /\ c \in present

Generated(p) == [state    |-> IF workSeen[p] THEN works[app[p].cluster].state ELSE "live",
                 ver      |-> app[p].ver, op |-> app[p].op,
                 readOnly |-> FALSE]

WriteGenerated(p) ==
  /\ pc[p] = "write"
  /\ \/ /\ Writable(p) /\ Succeed
        /\ WriteWork(app[p].cluster, Generated(p))
        /\ carried' = carried \cup ({<<app[p].cluster, app[p].op>>} \ (Clusters \X {0}))
        /\ Goto(p, IF app[p].op # 0 THEN "clear" ELSE "idle") /\ UNCHANGED dirty
     \/ /\ IF Writable(p) THEN Fault ELSE Succeed
        /\ Retry(p) /\ UNCHANGED <<works, workFresh, carried>>
  /\ UNCHANGED <<hub, present, bound, config, spoke, podVars, app, workSeen, appFresh, frozen,
                 bounds>>

\* [Mutant] The Application is written without its resourceVersion.
UpdatableAnyVersion(p) == hub.exists

\* Update of the Application that was read succeeds on its current version only.
Updatable(p) == hub.exists /\ appFresh[p]

\* The operation is removed from the hub after propagation.  The object written is the
\* one whose destination prepareApplicationForWorkPayload has overwritten.
ClearOperation(p) ==
  /\ pc[p] = "clear"
  /\ \/ /\ Updatable(p) /\ Succeed /\ Goto(p, "idle")
        /\ WriteHub([app[p] EXCEPT !.op = 0, !.inCluster = TRUE])
     \/ /\ IF Updatable(p) THEN Fault ELSE Succeed
        /\ Retry(p) /\ UNCHANGED <<hub, appFresh>>
  /\ UNCHANGED <<present, bound, config, works, spoke, podVars, app, workSeen, workFresh,
                 carried, frozen, bounds>>

\* [Mutant] A failed delete of the ManifestWork does not keep the finalizer.
AfterDeleteFailsOn(p) == Goto(p, "finalize") /\ UNCHANGED dirty

AfterDeleteFails(p) == Retry(p)

\* The Application is being deleted: delete its ManifestWork, if there is one.
DeleteWork(p) ==
  /\ pc[p] = "delete"
  /\ LET c == app[p].cluster IN
       \/ /\ Succeed /\ Goto(p, "finalize") /\ UNCHANGED dirty
          /\ IF works[c].state = "live" THEN WriteWork(c, [works[c] EXCEPT !.state = "deleting"])
                                        ELSE UNCHANGED <<works, workFresh>>
       \/ Fault /\ AfterDeleteFails(p) /\ UNCHANGED <<works, workFresh>>
  /\ UNCHANGED <<hub, present, bound, config, spoke, podVars, app, workSeen, appFresh, carried,
                 frozen, bounds>>

\* Then commit the removal of the finalizer, which lets the Application go.
Finalize(p) ==
  /\ pc[p] = "finalize"
  /\ \/ /\ Updatable(p) /\ Succeed /\ Goto(p, "idle")
        /\ WriteHub([app[p] EXCEPT !.exists = FALSE, !.finalizer = FALSE])
     \/ /\ IF Updatable(p) THEN Fault ELSE Succeed
        /\ Retry(p) /\ UNCHANGED <<hub, appFresh>>
  /\ UNCHANGED <<present, bound, config, works, spoke, podVars, app, workSeen, workFresh,
                 carried, frozen, bounds>>

Reconcile(p) == \/ Take(p) \/ ReadConfig(p) \/ GetApplication(p) \/ Check(p) \/ GetWork(p)
                \/ WriteGenerated(p) \/ ClearOperation(p) \/ DeleteWork(p) \/ Finalize(p)

Lifecycle(p) == \/ Boot(p) \/ ListWorks(p) \/ EndSweep(p)
                \/ \E c \in Clusters : SweepWork(p, c)

Next == \/ Users \/ Agents
        \/ \E p \in Pods : Start(p) \/ Stop(p) \/ Lifecycle(p) \/ Reconcile(p)

Spec == Init /\ [][Next]_vars

\* A Deployment keeps a pod running, pods and work agents keep working; users,
\* faults and stops are bounded and nothing is promised of them.
FairSpec == /\ Spec
            /\ WF_vars(Alive = {} /\ \E p \in Pods : Start(p))
            /\ \A p \in Pods : WF_vars(Lifecycle(p) \/ Reconcile(p))
            /\ \A c \in Clusters : WF_vars(Apply(c) \/ Retire(c))

-----------------------------------------------------------------------------
(* Properties. *)

\* The variables have their types (one invariant for the whole module).
TypeOK ==
  /\ hub \in Application
  /\ present \subseteq Clusters /\ bound \subseteq Clusters
  /\ config \in {"absent", "enabled", "disabled"}
  /\ works \in [Clusters -> Work]
  /\ spoke \in [Clusters -> Delivered]
  /\ phase \in [Pods -> {"down", "boot", "list", "sweep", "up"}]
  /\ dirty \in [Pods -> BOOLEAN]
  /\ pc \in [Pods -> {"idle", "load", "get", "check", "getwork", "write", "clear", "delete",
                      "finalize"}]
  /\ app \in [Pods -> Application]
  /\ appFresh \in [Pods -> BOOLEAN]
  /\ workSeen \in [Pods -> BOOLEAN] /\ workFresh \in [Pods -> BOOLEAN]
  /\ toSweep \in [Pods -> SUBSET Clusters] /\ missed \in [Pods -> BOOLEAN]
  /\ carried \subseteq Clusters \X Nat /\ frozen \in BOOLEAN
  /\ changes \in Nat /\ faults \in Nat /\ stops \in Nat

\* An operation disappears from the hub Application only after a ManifestWork of the
\* cluster it is for has carried it, whichever pods, edits and retries interleave
\* (application_controller.go, "remove the operation field ... after propagation").
OperationCarried ==
  [][hub.op # 0 /\ hub'.op # hub.op /\ UNCHANGED changes
       => <<hub.cluster, hub.op>> \in carried]_vars

\* With one pod at a time, an Application held by the finalizer is let go only when the
\* ManifestWork of its cluster is gone or going.
WorkGoesFirst ==
  [][hub.exists /\ hub.finalizer /\ ~hub'.exists => works[hub.cluster].state # "live"]_vars

\* Once a complete sweep has run and while the pull model is disabled, every
\* ManifestWork stays ReadOnly (pull_model_disable.go, "a single pass here is
\* permanently sufficient").
FrozenStays == frozen => \A c \in Clusters : works[c].state = "live" => works[c].readOnly

\* With one pod at a time that is so unless a call of the sweep or of a reconcile failed.
FrozenUnlessFailed == faults = 0 => FrozenStays

\* With one pod at a time, all of it implements Rollout: a cluster never gets an older spec
\* than before, nor one the hub has not asked for, and loses it in the order of a deletion.
Plan == INSTANCE Rollout WITH
  asked    <- [exists |-> hub.exists, ending |-> hub.deleting, held |-> hub.finalizer,
               cluster |-> hub.cluster, ver |-> hub.ver],
  attached <- present,
  offered  <- [c \in Clusters |-> [state |-> works[c].state, ver |-> works[c].ver]],
  runs     <- [c \in Clusters |-> spoke[c].ver]

FollowsPlan == Plan!Spec

\* The Application wants to be delivered to c.
Deliverable(c) == /\ hub.exists /\ ~hub.deleting /\ hub.labelled
                  /\ hub.cluster = c /\ c \in present

\* The pull model is on and every cluster selected, all the time: neither the end of a
\* disabled period nor a PlacementDecision is an event of this controller.
Serving == [](config # "disabled" /\ bound = Clusters)

\* Once users are quiet, the managed cluster runs the spec of the hub, whatever
\* failed, conflicted or restarted.
SpecDelivered ==
  Serving => \A c \in Clusters : <>[](Deliverable(c) => spoke[c].ver = hub.ver)

\* A deleted Application ends: it is let go and what it delivered is removed.
DeletionCompletes ==
  Serving => <>[](hub.deleting /\ hub.labelled /\ hub.cluster \in present
                    => ~hub.exists /\ spoke[hub.cluster].ver = 0)
=============================================================================
