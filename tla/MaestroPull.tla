----------------------------- MODULE MaestroPull -----------------------------
(***************************************************************************)
(* The pull model over Maestro: the propagation controller keeps a         *)
(* ManifestWork in Maestro for a hub Application, the aggregation          *)
(* controller copies the feedback of all ManifestWorks back every few      *)
(* seconds, and both Update the whole Application.  Each call is a step,   *)
(* and the clients read without cache.  The propagation has no leader, so  *)
(* that its pods overlap in a rolling restart; the aggregation elects one. *)
(* One Application is modelled.                                            *)
(***************************************************************************)
EXTENDS Naturals, FiniteSets

CONSTANTS
  Pods,        \* pods of the propagation controller, in any generation
  MaxAlive,    \* pods that may be alive together: 2 in a rolling restart
  Clusters,
  Locals,      \* the sets of clusters that may be labelled local-cluster
  Churn,       \* the kinds of change users make
  Finalizers,  \* whether the Application starts with the resources finalizer
  MaxChanges,  \* bound: changes users make
  MaxFaults,   \* bound: failed calls
  MaxCrashes   \* bound: pods that stop or die, and restarts of the aggregation

ASSUME MaestroAssumption ==
  /\ Clusters # {} /\ Locals \subseteq SUBSET Clusters /\ Finalizers \subseteq BOOLEAN
  /\ MaxAlive \in Nat /\ MaxChanges \in Nat /\ MaxFaults \in Nat /\ MaxCrashes \in Nat

VARIABLES
  hub,                 \* the Application on the hub
  present, local,      \* ManagedClusters that exist, and those labelled local-cluster
  works,               \* by cluster: the ManifestWork in Maestro
  spoke,               \* by cluster: the spec version the agent applied
  dirty, pc,           \* by pod: queued event, next call
  app, appFresh,       \* by pod: the Application it read, and is that the current version?
  work,                \* by pod: the ManifestWork it read
  aPc, aTodo, aStatus, \* aggregation: next call, clusters left, the status to be written
  seen, seenFresh,     \* the Application it read, and is that the current version?
  carried,             \* history: operations a ManifestWork of a cluster carried
  changes, faults, crashes

clusterVars == <<present, local, spoke>>
propVars == <<pc, app, work>>
aggVars  == <<aPc, aTodo, aStatus, seen>>
bounds   == <<changes, faults, crashes>>
vars == <<hub, works, clusterVars, dirty, propVars, appFresh, aggVars, seenFresh, carried, bounds>>

\* Versions count from 1; an operation, a status or a feedback 0 is none.
Application == [exists : BOOLEAN, deleting : BOOLEAN, finalizer : BOOLEAN, cluster : Clusters,
                ver : Nat, op : Nat, status : Nat,
                inCluster : BOOLEAN,  \* destination overwritten by the propagation's
                sameNs : BOOLEAN]     \* no ocm-managed-cluster-app-namespace annotation
Work   == [state : {"none", "live", "deleting"}, ver : Nat, op : Nat, feedback : Nat]
NoApplication == [exists |-> FALSE, deleting |-> FALSE, finalizer |-> FALSE,
                  cluster |-> CHOOSE c \in Clusters : TRUE, ver |-> 0, op |-> 0, status |-> 0,
                  inCluster |-> FALSE, sameNs |-> TRUE]    \* nothing is read
NoWork == [state |-> "none", ver |-> 0, op |-> 0, feedback |-> 0]

Alive == {p \in Pods : pc[p] # "down"}

Init ==
  /\ hub \in [exists : {TRUE}, deleting : {FALSE}, finalizer : Finalizers, cluster : Clusters,
              ver : {1}, op : {0}, status : {0}, inCluster : {FALSE}, sameNs : BOOLEAN]
  /\ present = Clusters /\ local \in Locals
  /\ works = [c \in Clusters |-> NoWork] /\ spoke = [c \in Clusters |-> 0]
  /\ dirty = [p \in Pods |-> FALSE] /\ pc = [p \in Pods |-> "down"]
  /\ app = [p \in Pods |-> NoApplication] /\ appFresh = [p \in Pods |-> FALSE]
  /\ work = [p \in Pods |-> NoWork]
  /\ aPc = "idle" /\ aTodo = {} /\ aStatus = 0 /\ seen = NoApplication
  /\ seenFresh = FALSE
  /\ carried = {} /\ changes = 0 /\ faults = 0 /\ crashes = 0

Fault   == faults < MaxFaults /\ faults' = faults + 1 /\ UNCHANGED <<changes, crashes>>
Succeed == UNCHANGED bounds

\* Every write is an event for every pod: the filter that means to drop those of the status
\* compares the resourceVersion as well.
WriteHub(a) ==
  /\ hub' = a
  /\ appFresh' = [p \in Pods |-> FALSE] /\ seenFresh' = FALSE
  /\ dirty' = [p \in Pods |-> pc[p] # "down"]

WriteWork(c, w) == works' = [works EXCEPT ![c] = w]

-----------------------------------------------------------------------------
(* Users, the ApplicationSet controller and the agents. *)

Change(kind) == /\ kind \in Churn /\ changes < MaxChanges /\ changes' = changes + 1
                /\ UNCHANGED <<faults, crashes>>

EditApplication ==
  /\ hub.exists
  /\ \/ Change("spec") /\ WriteHub([hub EXCEPT !.ver = changes' + 1, !.inCluster = FALSE])
     \/ Change("operation") /\ WriteHub([hub EXCEPT !.op = changes'])
     \/ /\ Change("move")
        /\ \E c \in Clusters \ {hub.cluster} : WriteHub([hub EXCEPT !.cluster = c])
  /\ UNCHANGED <<works, clusterVars, propVars, aggVars, carried>>

\* Without a finalizer the Application is gone at once.
DeleteApplication ==
  /\ Change("delete") /\ hub.exists /\ ~hub.deleting
  /\ WriteHub([hub EXCEPT !.exists = hub.finalizer, !.deleting = TRUE])
  /\ UNCHANGED <<works, clusterVars, propVars, aggVars, carried>>

DetachCluster(c) ==
  /\ Change("detach") /\ c \in present
  /\ present' = present \ {c}
  /\ UNCHANGED <<hub, works, local, spoke, dirty, propVars, appFresh, aggVars, seenFresh, carried>>

AgentUnchanged == UNCHANGED <<hub, present, local, dirty, propVars, appFresh, aggVars, seenFresh,
                              carried, bounds>>

Apply(c) ==
  /\ c \in present \ local /\ works[c].state = "live" /\ spoke[c] # works[c].ver
  /\ spoke' = [spoke EXCEPT ![c] = works[c].ver]
  /\ UNCHANGED works /\ AgentUnchanged

Report(c) ==
  /\ c \in present \ local /\ works[c].state = "live" /\ works[c].feedback # spoke[c]
  /\ WriteWork(c, [works[c] EXCEPT !.feedback = spoke[c]])
  /\ UNCHANGED spoke /\ AgentUnchanged

Retire(c) ==
  /\ c \in present \ local /\ works[c].state = "deleting"
  /\ WriteWork(c, NoWork) /\ spoke' = [spoke EXCEPT ![c] = 0]
  /\ AgentUnchanged

Agent(c) == Apply(c) \/ Report(c) \/ Retire(c)
-----------------------------------------------------------------------------
(* Propagation: one worker in each pod. *)

PropUnchanged == UNCHANGED <<clusterVars, aggVars>>
HubUnchanged  == UNCHANGED <<hub, seenFresh>>

Leave(p) == /\ pc' = [pc EXCEPT ![p] = "idle"]
            /\ app' = [app EXCEPT ![p] = NoApplication] /\ work' = [work EXCEPT ![p] = NoWork]

Rest(p) == Leave(p) /\ appFresh' = [appFresh EXCEPT ![p] = FALSE] /\ HubUnchanged

Go(p, to) == /\ pc' = [pc EXCEPT ![p] = to]
             /\ UNCHANGED <<app, appFresh, work, dirty>> /\ HubUnchanged

\* [Mutant] A failed reconcile is not queued again.
RetryNever(p) == Rest(p) /\ UNCHANGED dirty

Retry(p) == Rest(p) /\ dirty' = [dirty EXCEPT ![p] = TRUE]

Take(p) ==
  /\ pc[p] = "idle" /\ dirty[p]
  /\ dirty' = [dirty EXCEPT ![p] = FALSE] /\ pc' = [pc EXCEPT ![p] = "get"]
  /\ UNCHANGED <<works, app, appFresh, work, carried>> /\ Succeed /\ HubUnchanged /\ PropUnchanged

Read(p) == /\ app' = [app EXCEPT ![p] = hub] /\ appFresh' = [appFresh EXCEPT ![p] = TRUE]
           /\ pc' = [pc EXCEPT ![p] = "local"] /\ UNCHANGED <<work, dirty>> /\ HubUnchanged

\* An Application that is gone is an error too, tried again for ever.
GetApplication(p) ==
  /\ pc[p] = "get"
  /\ \/ hub.exists /\ Succeed /\ Read(p)
     \/ (IF hub.exists THEN Fault ELSE Succeed) /\ Retry(p)
  /\ UNCHANGED <<works, carried>> /\ PropUnchanged

Done(p) == Rest(p) /\ UNCHANGED dirty

ToWork(p) == Go(p, IF app[p].deleting THEN "find" ELSE "check")

\* [Mutant] An Application whose cluster could not be read is passed over.
PassedOver(p) == Done(p)

\* A cluster that could not be read is no local cluster.
Unread(p) == ToWork(p)

IsLocalCluster(p) ==
  /\ pc[p] = "local"
  /\ \/ app[p].cluster \in present \cap local /\ Succeed /\ Done(p)
     \/ app[p].cluster \notin present \cap local /\ Succeed /\ ToWork(p)
     \/ Fault /\ Unread(p)
  /\ UNCHANGED <<works, carried>> /\ PropUnchanged

CheckCluster(p) ==
  /\ pc[p] = "check"
  /\ \/ app[p].cluster \in present /\ Succeed /\ Go(p, "work")
     \/ (IF app[p].cluster \in present THEN Fault ELSE Succeed) /\ Retry(p)
  /\ UNCHANGED <<works, carried>> /\ PropUnchanged

GetWork(p) ==
  /\ pc[p] = "work"
  /\ \/ /\ Succeed /\ pc' = [pc EXCEPT ![p] = "write"]
        /\ work' = [work EXCEPT ![p] = works[app[p].cluster]]
        /\ UNCHANGED <<app, appFresh, dirty>> /\ HubUnchanged
     \/ Fault /\ Retry(p)
  /\ UNCHANGED <<works, carried>> /\ PropUnchanged

\* The ManifestWork is made if none was read.  Otherwise the payload is patched, unless the one
\* read was the same, and the rest stays.
Generated(p) == LET w == works[app[p].cluster] IN
  IF work[p].ver = app[p].ver /\ work[p].op = app[p].op
  THEN w ELSE [w EXCEPT !.state = IF @ = "none" THEN "live" ELSE @,
                        !.ver = app[p].ver, !.op = app[p].op]

\* Create fails if there is a ManifestWork, Patch if there is none; and Maestro may refuse the
\* patch of one that has changed since.
PutWork(p) ==
  /\ pc[p] = "write"
  /\ LET c == app[p].cluster IN
       \/ /\ (work[p].state = "none") = (works[c].state = "none") /\ Succeed
          /\ WriteWork(c, Generated(p))
          /\ IF app[p].op # 0 THEN carried' = carried \cup {<<c, app[p].op>>} /\ Go(p, "clear")
                              ELSE Done(p) /\ UNCHANGED carried
       \/ /\ IF works[c] = work[p] THEN Fault ELSE Succeed
          /\ Retry(p) /\ UNCHANGED <<works, carried>>
  /\ PropUnchanged

\* [Mutant] An Update that carries no resourceVersion.
UpdatableAnyVersion(p) == hub.exists

Updatable(p) == hub.exists /\ appFresh[p]

Commit(p, a) ==
  \/ Updatable(p) /\ Succeed /\ WriteHub(a) /\ Leave(p)
  \/ (IF Updatable(p) THEN Fault ELSE Succeed) /\ Retry(p)

\* The operation and the refresh annotation are removed; and the destination, which the making
\* of the payload has overwritten in the same object, is written with them.
ClearOperation(p) ==
  /\ pc[p] = "clear" /\ Commit(p, [app[p] EXCEPT !.op = 0, !.inCluster = TRUE])
  /\ UNCHANGED <<works, carried>> /\ PropUnchanged

\* [Mutant] A failed delete of the ManifestWork does not keep the finalizer.
AfterDeleteFailsOn(p) == Go(p, "finalize")

AfterDeleteFails(p) == Retry(p)

FindWork(p) ==
  /\ pc[p] = "find"
  /\ \/ works[app[p].cluster].state = "none" /\ Succeed /\ Go(p, "finalize")
     \/ works[app[p].cluster].state # "none" /\ Succeed /\ Go(p, "delete")
     \/ Fault /\ AfterDeleteFails(p)
  /\ UNCHANGED <<works, carried>> /\ PropUnchanged

\* One that went meanwhile is an error, and the reconcile is tried again.
DeleteWork(p) ==
  /\ pc[p] = "delete"
  /\ LET c == app[p].cluster IN
       \/ /\ works[c].state # "none" /\ Succeed /\ Go(p, "finalize")
          /\ WriteWork(c, [works[c] EXCEPT !.state = "deleting"])
       \/ /\ IF works[c].state # "none" THEN Fault ELSE Succeed
          /\ AfterDeleteFails(p) /\ UNCHANGED works
  /\ UNCHANGED carried /\ PropUnchanged

\* The removal of the finalizer is committed; without finalizers the Application goes.
Finalize(p) ==
  /\ pc[p] = "finalize" /\ Commit(p, [app[p] EXCEPT !.finalizer = FALSE, !.exists = FALSE])
  /\ UNCHANGED <<works, carried>> /\ PropUnchanged

Reconcile(p) == \/ Take(p) \/ GetApplication(p) \/ IsLocalCluster(p) \/ CheckCluster(p)
                \/ GetWork(p) \/ PutWork(p) \/ ClearOperation(p)
                \/ FindWork(p) \/ DeleteWork(p) \/ Finalize(p)

PodUnchanged == UNCHANGED <<hub, seenFresh, works, carried>> /\ PropUnchanged

\* A pod that starts is told of every Application there is.
Start(p) ==
  /\ pc[p] = "down" /\ Cardinality(Alive) < MaxAlive
  /\ pc' = [pc EXCEPT ![p] = "idle"] /\ dirty' = [dirty EXCEPT ![p] = hub.exists]
  /\ UNCHANGED <<app, appFresh, work>> /\ Succeed /\ PodUnchanged

Crash == crashes < MaxCrashes /\ crashes' = crashes + 1 /\ UNCHANGED <<changes, faults>>

\* A pod dies, or is stopped at the end of a rolling restart.
Stop(p) ==
  /\ pc[p] # "down" /\ Crash
  /\ pc' = [pc EXCEPT ![p] = "down"] /\ dirty' = [dirty EXCEPT ![p] = FALSE]
  /\ app' = [app EXCEPT ![p] = NoApplication] /\ work' = [work EXCEPT ![p] = NoWork]
  /\ appFresh' = [appFresh EXCEPT ![p] = FALSE]
  /\ PodUnchanged
-----------------------------------------------------------------------------
(* Aggregation: houseKeeping, again and again. *)

AggUnchanged == UNCHANGED <<works, clusterVars, propVars, carried>>
NoHubWrite   == UNCHANGED <<hub, dirty, appFresh>>

HouseKeeping ==
  /\ aPc = "idle"
  /\ \/ Succeed /\ aTodo' = present \ local /\ aPc' = "list"
     \/ Fault /\ UNCHANGED <<aTodo, aPc>>
  /\ UNCHANGED <<aStatus, seen, seenFresh>> /\ NoHubWrite /\ AggUnchanged

HasFeedback(c) == works[c].feedback # 0

\* A failed list leaves the cluster to the next cycle.
ListWorks(c) ==
  /\ aPc = "list" /\ c \in aTodo
  /\ aTodo' = aTodo \ {c}
  /\ \/ /\ HasFeedback(c) /\ Succeed
        /\ aStatus' = works[c].feedback /\ aPc' = "get"
     \/ ~HasFeedback(c) /\ Succeed /\ UNCHANGED <<aStatus, aPc>>
     \/ Fault /\ UNCHANGED <<aStatus, aPc>>
  /\ UNCHANGED <<seen, seenFresh>> /\ NoHubWrite /\ AggUnchanged

\* [Mutant] Only a first status is written.
DiffersFromNone == hub.status = 0

Differs == hub.status # aStatus

NextWork == aPc' = "list" /\ aStatus' = 0 /\ seen' = NoApplication

\* The Application is looked up under the name and namespace of the payload, which the
\* annotation for the cluster's namespace changes.
GetHubApplication ==
  /\ aPc = "get"
  /\ \/ /\ hub.exists /\ hub.sameNs /\ Differs /\ Succeed
        /\ seen' = hub /\ seenFresh' = TRUE /\ aPc' = "put" /\ UNCHANGED aStatus
     \/ /\ ~(hub.exists /\ hub.sameNs /\ Differs) /\ Succeed
        /\ NextWork /\ UNCHANGED seenFresh
     \/ Fault /\ NextWork /\ UNCHANGED seenFresh
  /\ UNCHANGED aTodo /\ NoHubWrite /\ AggUnchanged

\* [Mutant] The status is written over whatever there is.
WritableAnyVersion == hub.exists

Writable == hub.exists /\ seenFresh

UpdateArgoCDAppStatus ==
  /\ aPc = "put" /\ NextWork
  /\ \/ Writable /\ Succeed /\ WriteHub([seen EXCEPT !.status = aStatus])
     \/ /\ IF Writable THEN Fault ELSE Succeed
        /\ NoHubWrite /\ seenFresh' = FALSE
  /\ UNCHANGED aTodo /\ AggUnchanged

EndCycle ==
  /\ aPc = "list" /\ aTodo = {}
  /\ aPc' = "idle"
  /\ UNCHANGED <<aTodo, aStatus, seen, seenFresh>> /\ Succeed /\ NoHubWrite /\ AggUnchanged

Aggregate == \/ HouseKeeping \/ GetHubApplication \/ UpdateArgoCDAppStatus \/ EndCycle
             \/ \E c \in Clusters : ListWorks(c)

Restart ==
  /\ aPc # "idle" /\ Crash
  /\ aPc' = "idle" /\ aTodo' = {} /\ aStatus' = 0 /\ seen' = NoApplication /\ seenFresh' = FALSE
  /\ NoHubWrite /\ AggUnchanged

Next == \/ EditApplication \/ DeleteApplication \/ Aggregate \/ Restart
        \/ \E p \in Pods : Start(p) \/ Stop(p) \/ Reconcile(p)
        \/ \E c \in Clusters : DetachCluster(c) \/ Agent(c)

Spec == Init /\ [][Next]_vars

\* The Deployment keeps a pod running; the controllers and the agents go on; and the cycles of
\* the aggregation, seconds apart, do not come between the read and the Update of every single
\* reconcile.
FairSpec == /\ Spec
            /\ WF_vars(Alive = {} /\ \E p \in Pods : Start(p)) /\ WF_vars(Aggregate)
            /\ \A p \in Pods : WF_vars(Reconcile(p)) /\ SF_vars(appFresh[p] /\ Finalize(p))
            /\ \A c \in Clusters : WF_vars(Agent(c))
-----------------------------------------------------------------------------
(* Properties. *)

\* The variables have their types, and a status on its way to the hub is a reported one.
TypeOK ==
  /\ hub \in Application /\ seen \in Application
  /\ present \subseteq Clusters /\ local \subseteq Clusters
  /\ works \in [Clusters -> Work] /\ spoke \in [Clusters -> Nat]
  /\ app \in [Pods -> Application] /\ work \in [Pods -> Work]
  /\ dirty \in [Pods -> BOOLEAN] /\ appFresh \in [Pods -> BOOLEAN] /\ seenFresh \in BOOLEAN
  /\ pc \in [Pods -> {"down", "idle", "get", "local", "check", "work", "write", "clear", "find",
                      "delete", "finalize"}]
  /\ aPc \in {"idle", "list", "get", "put"} /\ aTodo \subseteq Clusters
  /\ aStatus \in Nat /\ (aPc \in {"get", "put"} => aStatus # 0)
  /\ carried \subseteq Clusters \X Nat
  /\ changes \in 0..MaxChanges /\ faults \in 0..MaxFaults /\ crashes \in 0..MaxCrashes

\* An operation leaves the hub Application only after a ManifestWork of its cluster carried
\* it, although two controllers write the whole Application (Reconcile, "after propagation").
OperationCarried ==
  [][hub.op # 0 /\ hub'.op # hub.op /\ UNCHANGED changes
       => <<hub.cluster, hub.op>> \in carried]_vars

\* Neither controller's Update of a whole, older Application takes back what a user or the
\* other controller wrote: the one only writes status, and the other only takes the operation
\* away.  What is lost of the user's is the destination, and only with an operation.
NothingTakenBack ==
  [][hub'.exists /\ UNCHANGED changes =>
       /\ hub' = [hub EXCEPT !.status = hub'.status, !.op = hub'.op,
                             !.inCluster = hub'.inCluster]
       /\ hub'.status # hub.status => aStatus = hub'.status /\ hub'.op = hub.op
       /\ hub'.op # hub.op => hub'.op = 0
       /\ hub'.inCluster # hub.inCluster => hub.op # 0 /\ hub'.op = 0]_vars

\* An Application held by the finalizer is let go only when the ManifestWork of its cluster is
\* gone or going ("deleted ManifestWork, commit the Application finalizer removal"): with one
\* pod at a time, and not always when two overlap.
WorkGoesFirst ==
  [][hub.exists /\ hub.finalizer /\ ~hub'.exists => works[hub.cluster].state # "live"]_vars

\* With one pod at a time, both controllers and the agents implement Rollout: a cluster never
\* gets an older spec than before, nor one the hub has not asked for, and loses it in the order
\* of a deletion.
Plan == INSTANCE Rollout WITH
  asked    <- [exists |-> hub.exists, ending |-> hub.deleting, held |-> hub.finalizer,
               cluster |-> hub.cluster, ver |-> hub.ver],
  attached <- present,
  offered  <- [c \in Clusters |-> [state |-> works[c].state, ver |-> works[c].ver]],
  runs     <- spoke

FollowsPlan == Plan!Spec

\* With one pod at a time, the spec reaches the cluster of the Application, whatever failed,
\* conflicted or crashed.
SpecDelivered == \A c \in Clusters :
  <>[](hub.exists /\ ~hub.deleting /\ hub.cluster = c /\ c \in present \ local
         => spoke[c] = hub.ver)

\* A deletion held by the finalizer ends, also while the statuses of two clusters alternate.
DeletionCompletes == <>[](hub.deleting /\ hub.cluster \notin local => ~hub.exists)

\* The hub ends up with the status of the Application's cluster; only the cluster of an
\* earlier annotation, whose ManifestWork nobody removes, goes on to overwrite it.
StatusArrives == \A c \in Clusters :
  <>[](/\ hub.exists /\ ~hub.deleting /\ hub.sameNs /\ hub.cluster = c /\ c \in present \ local
       /\ \A d \in (present \ local) \ {c} : works[d].feedback = 0
       => hub.status = spoke[c])
==============================================================================
