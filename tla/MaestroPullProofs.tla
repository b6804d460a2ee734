-------------------------- MODULE MaestroPullProofs --------------------------
(***************************************************************************)
(* Theorems about MaestroPull, for every set of pods and clusters and      *)
(* every number of changes, failures and restarts; those about the order   *)
(* of deliveries and deletions are about one pod at a time.                *)
(***************************************************************************)
EXTENDS MaestroPull, FiniteSetTheorems, TLAPS

USE MaestroAssumption

\* The records the actions build are of their types.
LEMMA MaestroRecords ==
  /\ NoApplication \in Application /\ NoWork \in Work
  /\ \A a \in Application :
       /\ a.cluster \in Clusters /\ a.ver \in Nat /\ a.op \in Nat /\ a.status \in Nat
       /\ \A n \in Nat : /\ [a EXCEPT !.ver = n, !.inCluster = FALSE] \in Application
                         /\ [a EXCEPT !.op = n] \in Application
                         /\ [a EXCEPT !.status = n] \in Application
       /\ \A c \in Clusters : [a EXCEPT !.cluster = c] \in Application
       /\ [a EXCEPT !.exists = a.finalizer, !.deleting = TRUE] \in Application
       /\ [a EXCEPT !.op = 0, !.inCluster = TRUE] \in Application
       /\ [a EXCEPT !.finalizer = FALSE, !.exists = FALSE] \in Application
<1>1. (CHOOSE c \in Clusters : TRUE) \in Clusters
  OBVIOUS
<1>2. NoApplication \in Application
  BY <1>1 DEF NoApplication, Application
<1>3. QED
  BY <1>2 DEF Application, NoWork, Work

\* So are the ManifestWorks.
LEMMA MaestroWorks ==
  \A w \in Work :
    /\ w.ver \in Nat /\ w.op \in Nat /\ w.feedback \in Nat
    /\ \A n \in Nat : [w EXCEPT !.feedback = n] \in Work
    /\ [w EXCEPT !.state = "deleting"] \in Work
    /\ \A m, n \in Nat : [w EXCEPT !.state = IF @ = "none" THEN "live" ELSE @,
                                    !.ver = m, !.op = n] \in Work
BY DEF Work

\* Writing the Application or a ManifestWork keeps the types.
LEMMA MaestroWrites ==
  /\ \A a \in Application : WriteHub(a) =>
       /\ hub' \in Application /\ seenFresh' \in BOOLEAN
       /\ appFresh' \in [Pods -> BOOLEAN] /\ dirty' \in [Pods -> BOOLEAN]
  /\ TypeOK => \A c \in Clusters, w \in Work : WriteWork(c, w) => works' \in [Clusters -> Work]
<1>1. \A a \in Application : WriteHub(a) =>
        /\ hub' \in Application /\ seenFresh' \in BOOLEAN
        /\ appFresh' \in [Pods -> BOOLEAN] /\ dirty' \in [Pods -> BOOLEAN]
  BY DEF WriteHub
<1>2. TypeOK => \A c \in Clusters, w \in Work : WriteWork(c, w) => works' \in [Clusters -> Work]
  BY DEF WriteWork, TypeOK
<1>3. QED
  BY <1>1, <1>2

\* Users and agents keep the types.
LEMMA MaestroOutsideType ==
  ASSUME TypeOK,
         \/ EditApplication \/ DeleteApplication
         \/ \E c \in Clusters : DetachCluster(c) \/ Agent(c)
  PROVE  TypeOK'
<1> USE DEF clusterVars, propVars, aggVars, bounds
<1>1. CASE EditApplication
  <2>0. hub \in Application
    BY DEF TypeOK
  <2>1. changes' \in Nat /\ changes' + 1 \in Nat /\ changes' \in 0..MaxChanges
    <3>1. changes < MaxChanges /\ changes' = changes + 1
      BY <1>1, Zenon DEF EditApplication, Change
    <3>2. QED
      BY <3>1 DEF TypeOK
  <2>2. PICK a \in Application : WriteHub(a)
    <3>1. CASE WriteHub([hub EXCEPT !.ver = changes' + 1, !.inCluster = FALSE])
      <4>1. [hub EXCEPT !.ver = changes' + 1, !.inCluster = FALSE] \in Application
        BY <2>0, <2>1, MaestroRecords, Zenon
      <4>2. QED
        BY <3>1, <4>1, Zenon
    <3>2. CASE WriteHub([hub EXCEPT !.op = changes'])
      <4>1. [hub EXCEPT !.op = changes'] \in Application
        BY <2>0, <2>1, MaestroRecords, Zenon
      <4>2. QED
        BY <3>2, <4>1, Zenon
    <3>3. CASE \E c \in Clusters \ {hub.cluster} : WriteHub([hub EXCEPT !.cluster = c])
      BY <2>0, <3>3, MaestroRecords, Zenon
    <3>4. QED
      BY <1>1, <3>1, <3>2, <3>3, Zenon DEF EditApplication
  <2>3. UNCHANGED <<works, clusterVars, propVars, aggVars, carried, faults, crashes>>
    BY <1>1, Zenon DEF EditApplication, Change
  <2>4. /\ hub' \in Application /\ seenFresh' \in BOOLEAN
        /\ appFresh' \in [Pods -> BOOLEAN] /\ dirty' \in [Pods -> BOOLEAN]
    BY <2>2, MaestroWrites, Zenon
  <2>5. QED
    BY <2>1, <2>3, <2>4 DEF TypeOK
<1>2. CASE DeleteApplication
  <2>1. [hub EXCEPT !.exists = hub.finalizer, !.deleting = TRUE] \in Application
    BY MaestroRecords, Zenon DEF TypeOK
  <2>2. /\ hub' \in Application /\ seenFresh' \in BOOLEAN
        /\ appFresh' \in [Pods -> BOOLEAN] /\ dirty' \in [Pods -> BOOLEAN]
    BY <1>2, <2>1, MaestroWrites, Zenon DEF DeleteApplication
  <2>3. /\ changes < MaxChanges /\ changes' = changes + 1
        /\ UNCHANGED <<works, clusterVars, propVars, aggVars, carried, faults, crashes>>
    BY <1>2, Zenon DEF DeleteApplication, Change
  <2>4. QED
    BY <2>2, <2>3 DEF TypeOK
<1>3. ASSUME NEW c \in Clusters, DetachCluster(c) PROVE TypeOK'
  BY <1>3 DEF DetachCluster, Change, TypeOK
<1>4. ASSUME NEW c \in Clusters, Agent(c) PROVE TypeOK'
  <2>1. AgentUnchanged
    BY <1>4, Zenon DEF Agent, Apply, Report, Retire
  <2>2. works[c] \in Work /\ works[c].ver \in Nat /\ spoke[c] \in Nat
    <3>1. works[c] \in Work /\ spoke[c] \in Nat
      BY DEF TypeOK
    <3>2. QED
      BY <3>1, MaestroWorks, Zenon
  <2>3. spoke' \in [Clusters -> Nat]
    <3>1. \/ spoke' = [spoke EXCEPT ![c] = works[c].ver] \/ UNCHANGED spoke
          \/ spoke' = [spoke EXCEPT ![c] = 0]
      BY <1>4, Zenon DEF Agent, Apply, Report, Retire
    <3>2. QED
      BY <2>2, <3>1 DEF TypeOK
  <2>4. works' \in [Clusters -> Work]
    <3>1. CASE UNCHANGED works
      BY <3>1 DEF TypeOK
    <3>2. CASE WriteWork(c, [works[c] EXCEPT !.feedback = spoke[c]])
      BY <2>2, <3>2, MaestroWorks, MaestroWrites, Zenon
    <3>3. CASE WriteWork(c, NoWork)
      BY <3>3, MaestroRecords, MaestroWrites, Zenon
    <3>4. QED
      BY <1>4, <3>1, <3>2, <3>3, Zenon DEF Agent, Apply, Report, Retire
  <2>5. QED
    BY <2>1, <2>3, <2>4 DEF AgentUnchanged, TypeOK
<1>5. QED
  BY <1>1, <1>2, <1>3, <1>4

\* A call fails or succeeds within the bounds.
LEMMA MaestroBounds ==
  ASSUME TypeOK, Succeed \/ Fault
  PROVE  /\ changes' \in 0..MaxChanges /\ faults' \in 0..MaxFaults
         /\ crashes' \in 0..MaxCrashes
<1>1. CASE Succeed
  BY <1>1 DEF Succeed, bounds, TypeOK
<1>2. CASE Fault
  BY <1>2 DEF Fault, bounds, TypeOK
<1>3. QED
  BY <1>1, <1>2

\* A step of a reconcile that writes nothing to the hub goes on, ends or is tried again.
Calls == {"down", "idle", "get", "local", "check", "work", "write", "clear", "find", "delete",
          "finalize"}

Onward(p) == Retry(p) \/ Done(p) \/ \E to \in Calls : Go(p, to)

\* What is on its way to the hub is typed.
LEMMA MaestroOnwardType ==
  ASSUME TypeOK, NEW p \in Pods, Onward(p), PropUnchanged, Succeed \/ Fault,
         works' \in [Clusters -> Work], carried' \subseteq Clusters \X Nat
  PROVE  TypeOK'
<1>0. NoApplication \in Application /\ NoWork \in Work
  BY MaestroRecords, Zenon
<1>1. ASSUME Rest(p)
      PROVE  /\ hub' \in Application /\ seenFresh' \in BOOLEAN
             /\ app' \in [Pods -> Application] /\ work' \in [Pods -> Work]
             /\ pc' \in [Pods -> Calls] /\ appFresh' \in [Pods -> BOOLEAN]
  BY <1>0, <1>1 DEF Rest, Leave, HubUnchanged, TypeOK, Calls
<1>2. /\ hub' \in Application /\ seenFresh' \in BOOLEAN
      /\ app' \in [Pods -> Application] /\ work' \in [Pods -> Work]
      /\ pc' \in [Pods -> Calls] /\ appFresh' \in [Pods -> BOOLEAN]
      /\ dirty' \in [Pods -> BOOLEAN]
  <2>1. CASE Retry(p)
    BY <1>1, <2>1 DEF Retry, TypeOK
  <2>2. CASE Done(p)
    BY <1>1, <2>2 DEF Done, TypeOK
  <2>3. CASE \E to \in Calls : Go(p, to)
    BY <2>3 DEF Go, HubUnchanged, TypeOK, Calls
  <2>4. QED
    BY <2>1, <2>2, <2>3 DEF Onward
<1>3. QED
  BY <1>2, MaestroBounds DEF PropUnchanged, clusterVars, aggVars, TypeOK, Calls

\* What the calls of a reconcile use.
LEMMA MaestroApp ==
  ASSUME TypeOK, NEW p \in Pods
  PROVE  /\ app[p] \in Application /\ app[p].cluster \in Clusters
         /\ app[p].ver \in Nat /\ app[p].op \in Nat /\ work[p] \in Work
         /\ works \in [Clusters -> Work] /\ works[app[p].cluster] \in Work
         /\ carried \subseteq Clusters \X Nat
         /\ [app[p] EXCEPT !.op = 0, !.inCluster = TRUE] \in Application
         /\ [app[p] EXCEPT !.finalizer = FALSE, !.exists = FALSE] \in Application
<1>1. /\ app[p] \in Application /\ work[p] \in Work
      /\ works \in [Clusters -> Work] /\ carried \subseteq Clusters \X Nat
  BY DEF TypeOK
<1>2. /\ app[p].cluster \in Clusters /\ app[p].ver \in Nat /\ app[p].op \in Nat
      /\ [app[p] EXCEPT !.op = 0, !.inCluster = TRUE] \in Application
      /\ [app[p] EXCEPT !.finalizer = FALSE, !.exists = FALSE] \in Application
  BY <1>1, MaestroRecords, Zenon
<1>3. works[app[p].cluster] \in Work
  BY <1>1, <1>2
<1>4. QED
  BY <1>1, <1>2, <1>3, Zenon

\* What PutWork writes: the spec it has read, or what there is.
LEMMA MaestroGenerated ==
  ASSUME TypeOK, NEW p \in Pods
  PROVE  LET w == works[app[p].cluster] IN
         /\ Generated(p) \in Work
         /\ \/ Generated(p) = w
            \/ /\ Generated(p).ver = app[p].ver
               /\ Generated(p).state = IF w.state = "none" THEN "live" ELSE w.state
<1>1. /\ app[p].ver \in Nat /\ app[p].op \in Nat /\ works[app[p].cluster] \in Work
  BY MaestroApp
<1>2. QED
  BY <1>1 DEF Generated, Work

\* The propagation controller keeps the types.
LEMMA MaestroReconcileType == ASSUME TypeOK, NEW p \in Pods, Reconcile(p) PROVE TypeOK'
<1>0. /\ UNCHANGED works => works' \in [Clusters -> Work]
      /\ UNCHANGED carried => carried' \subseteq Clusters \X Nat
  BY MaestroApp
<1>1. CASE Take(p)
  BY <1>0, <1>1, MaestroBounds
     DEF Take, PropUnchanged, HubUnchanged, clusterVars, aggVars, TypeOK
<1>2. CASE GetApplication(p)
  <2>0. PropUnchanged /\ (Succeed \/ Fault) /\ UNCHANGED <<works, carried>>
    BY <1>2, Zenon DEF GetApplication
  <2>1. CASE Retry(p)
    BY <1>0, <2>0, <2>1, MaestroOnwardType DEF Onward
  <2>2. CASE Read(p)
    BY <1>0, <2>0, <2>2, MaestroBounds
       DEF Read, PropUnchanged, HubUnchanged, clusterVars, aggVars, TypeOK
  <2>3. QED
    BY <1>2, <2>1, <2>2, Zenon DEF GetApplication
<1>3. CASE IsLocalCluster(p)
  <2>1. ToWork(p) => Onward(p)
    BY DEF ToWork, Onward, Calls
  <2>2. /\ Done(p) \/ ToWork(p)
        /\ PropUnchanged /\ (Succeed \/ Fault) /\ UNCHANGED <<works, carried>>
    BY <1>3, Zenon DEF IsLocalCluster, Unread
  <2>3. QED
    BY <1>0, <2>1, <2>2, MaestroOnwardType DEF Onward
<1>4. CASE CheckCluster(p)
  <2>1. /\ Go(p, "work") \/ Retry(p)
        /\ PropUnchanged /\ (Succeed \/ Fault) /\ UNCHANGED <<works, carried>>
    BY <1>4, Zenon DEF CheckCluster
  <2>2. QED
    BY <1>0, <2>1, MaestroOnwardType DEF Onward, Calls
<1>5. CASE GetWork(p)
  <2>0. PropUnchanged /\ (Succeed \/ Fault) /\ UNCHANGED <<works, carried>>
    BY <1>5, Zenon DEF GetWork
  <2>1. CASE Retry(p)
    BY <1>0, <2>0, <2>1, MaestroOnwardType DEF Onward
  <2>2. CASE /\ pc' = [pc EXCEPT ![p] = "write"]
             /\ work' = [work EXCEPT ![p] = works[app[p].cluster]]
             /\ UNCHANGED <<app, appFresh, dirty>> /\ HubUnchanged
    <3>1. works[app[p].cluster] \in Work
      BY MaestroApp
    <3>2. QED
      BY <1>0, <2>0, <2>2, <3>1, MaestroBounds
         DEF PropUnchanged, HubUnchanged, clusterVars, aggVars, TypeOK
  <2>3. QED
    BY <1>5, <2>1, <2>2, Zenon DEF GetWork
<1>6. CASE PutWork(p)
  <2>0. PropUnchanged /\ (Succeed \/ Fault)
    BY <1>6, Zenon DEF PutWork
  <2>1. CASE UNCHANGED <<works, carried>> /\ Retry(p)
    BY <1>0, <2>0, <2>1, MaestroOnwardType DEF Onward
  <2>2. CASE /\ WriteWork(app[p].cluster, Generated(p))
             /\ \/ carried' = carried \cup {<<app[p].cluster, app[p].op>>} /\ Go(p, "clear")
                \/ Done(p) /\ UNCHANGED carried
    <3>1. works' \in [Clusters -> Work]
      BY <2>2, MaestroApp, MaestroGenerated, MaestroWrites, Zenon
    <3>2. carried' = carried \cup {<<app[p].cluster, app[p].op>>} \/ UNCHANGED carried
      BY <2>2, Zenon
    <3>3. carried' \subseteq Clusters \X Nat
      <4>1. /\ app[p].cluster \in Clusters /\ app[p].op \in Nat
            /\ carried \subseteq Clusters \X Nat
        BY MaestroApp
      <4>2. QED
        BY <3>2, <4>1
    <3>4. Go(p, "clear") \/ Done(p)
      BY <2>2, Zenon
    <3>5. QED
      BY <2>0, <3>1, <3>3, <3>4, MaestroOnwardType DEF Onward, Calls
  <2>3. QED
    BY <1>6, <2>1, <2>2, Zenon DEF PutWork
<1>7. ASSUME NEW a \in Application, Commit(p, a), UNCHANGED <<works, carried>>, PropUnchanged
      PROVE  TypeOK'
  <2>1. CASE Retry(p)
    <3>1. Onward(p) /\ (Succeed \/ Fault)
      BY <1>7, <2>1, Zenon DEF Commit, Onward
    <3>2. QED
      BY <1>0, <1>7, <3>1, MaestroOnwardType
  <2>2. CASE Succeed /\ WriteHub(a) /\ Leave(p)
    <3>1. /\ hub' \in Application /\ seenFresh' \in BOOLEAN
          /\ appFresh' \in [Pods -> BOOLEAN] /\ dirty' \in [Pods -> BOOLEAN]
      BY <2>2, MaestroWrites, Zenon
    <3>2. NoApplication \in Application /\ NoWork \in Work
      BY MaestroRecords, Zenon
    <3>3. QED
      BY <1>0, <1>7, <2>2, <3>1, <3>2, MaestroBounds
         DEF Leave, PropUnchanged, clusterVars, aggVars, TypeOK
  <2>3. QED
    BY <1>7, <2>1, <2>2, Zenon DEF Commit
<1>8. CASE ClearOperation(p)
  BY <1>7, <1>8, MaestroApp, Zenon DEF ClearOperation
<1>9. CASE FindWork(p)
  <2>1. /\ Go(p, "finalize") \/ Go(p, "delete") \/ Retry(p)
        /\ PropUnchanged /\ (Succeed \/ Fault) /\ UNCHANGED <<works, carried>>
    BY <1>9, Zenon DEF FindWork, AfterDeleteFails
  <2>2. QED
    BY <1>0, <2>1, MaestroOnwardType DEF Onward, Calls
<1>10. CASE DeleteWork(p)
  <2>1. works' \in [Clusters -> Work]
    <3>1. CASE WriteWork(app[p].cluster, [works[app[p].cluster] EXCEPT !.state = "deleting"])
      BY <3>1, MaestroApp, MaestroWorks, MaestroWrites, Zenon
    <3>2. QED
      BY <1>0, <1>10, <3>1, Zenon DEF DeleteWork
  <2>2. /\ Go(p, "finalize") \/ Retry(p)
        /\ PropUnchanged /\ (Succeed \/ Fault) /\ UNCHANGED carried
    BY <1>10, Zenon DEF DeleteWork, AfterDeleteFails
  <2>3. QED
    BY <1>0, <2>1, <2>2, MaestroOnwardType DEF Onward, Calls
<1>11. CASE Finalize(p)
  BY <1>7, <1>11, MaestroApp, Zenon DEF Finalize
<1>12. QED
  BY <1>1, <1>2, <1>3, <1>4, <1>5, <1>6, <1>8, <1>9, <1>10, <1>11 DEF Reconcile

\* So does the aggregation controller.
LEMMA MaestroAggregateType == ASSUME TypeOK, Aggregate PROVE TypeOK'
<1>0. NoApplication \in Application /\ [seen EXCEPT !.status = aStatus] \in Application
  <2>1. seen \in Application /\ aStatus \in Nat
    BY DEF TypeOK
  <2>2. QED
    BY <2>1, MaestroRecords, Zenon
<1> USE <1>0, MaestroBounds DEF clusterVars, propVars, aggVars, AggUnchanged, NoHubWrite
<1>1. CASE HouseKeeping
  BY <1>1 DEF HouseKeeping, TypeOK
<1>2. CASE GetHubApplication
  <2>1. UNCHANGED aTodo /\ NoHubWrite /\ AggUnchanged /\ (Succeed \/ Fault)
    BY <1>2, Zenon DEF GetHubApplication
  <2>2. CASE seen' = hub /\ seenFresh' = TRUE /\ aPc' = "put" /\ UNCHANGED aStatus
    BY <1>2, <2>1, <2>2 DEF GetHubApplication, TypeOK
  <2>3. CASE NextWork /\ UNCHANGED seenFresh
    BY <2>1, <2>3 DEF NextWork, TypeOK
  <2>4. QED
    BY <1>2, <2>2, <2>3, Zenon DEF GetHubApplication
<1>3. CASE UpdateArgoCDAppStatus
  <2>1. /\ hub' \in Application /\ seenFresh' \in BOOLEAN
        /\ appFresh' \in [Pods -> BOOLEAN] /\ dirty' \in [Pods -> BOOLEAN]
    <3>1. CASE WriteHub([seen EXCEPT !.status = aStatus])
      BY <1>0, <3>1, MaestroWrites, Zenon
    <3>2. CASE NoHubWrite /\ seenFresh' = FALSE
      BY <3>2 DEF TypeOK
    <3>3. QED
      BY <1>3, <3>1, <3>2, Zenon DEF UpdateArgoCDAppStatus
  <2>2. NextWork /\ UNCHANGED aTodo /\ AggUnchanged /\ (Succeed \/ Fault)
    BY <1>3, Zenon DEF UpdateArgoCDAppStatus
  <2>3. QED
    BY <2>1, <2>2 DEF NextWork, TypeOK
<1>4. CASE EndCycle
  BY <1>4 DEF EndCycle, TypeOK
<1>5. ASSUME NEW c \in Clusters, ListWorks(c) PROVE TypeOK'
  <2>1. works[c].feedback \in Nat
    BY DEF TypeOK, Work
  <2>2. QED
    BY <1>5, <2>1 DEF ListWorks, HasFeedback, TypeOK
<1>6. QED
  BY <1>1, <1>2, <1>3, <1>4, <1>5 DEF Aggregate

\* So do starts, stops and restarts.
LEMMA MaestroLifeType ==
  ASSUME TypeOK, Restart \/ \E p \in Pods : Start(p) \/ Stop(p)
  PROVE  TypeOK'
<1>0. NoApplication \in Application /\ NoWork \in Work
  BY MaestroRecords, Zenon
<1> USE DEF clusterVars, propVars, aggVars, bounds, PropUnchanged, PodUnchanged
<1>1. CASE Restart
  <2>1. crashes' \in 0..MaxCrashes /\ UNCHANGED <<changes, faults>>
    BY <1>1 DEF Restart, Crash, TypeOK
  <2>2. /\ aPc' = "idle" /\ aTodo' = {} /\ aStatus' = 0 /\ seen' = NoApplication
        /\ seenFresh' = FALSE /\ NoHubWrite /\ AggUnchanged
    BY <1>1, Zenon DEF Restart
  <2>3. QED
    BY <1>0, <2>1, <2>2 DEF NoHubWrite, AggUnchanged, TypeOK
<1>2. ASSUME NEW p \in Pods, Start(p) PROVE TypeOK'
  <2>1. hub.exists \in BOOLEAN
    BY DEF TypeOK, Application
  <2>2. QED
    BY <1>2, <2>1 DEF Start, Succeed, TypeOK
<1>3. ASSUME NEW p \in Pods, Stop(p) PROVE TypeOK'
  BY <1>0, <1>3 DEF Stop, Crash, TypeOK
<1>4. QED
  BY <1>1, <1>2, <1>3

\* All steps keep the types.
LEMMA MaestroTypeStep == TypeOK /\ [Next]_vars => TypeOK'
<1> SUFFICES ASSUME TypeOK, [Next]_vars PROVE TypeOK'
  OBVIOUS
<1>1. CASE \/ EditApplication \/ DeleteApplication
           \/ \E c \in Clusters : DetachCluster(c) \/ Agent(c)
  BY <1>1, MaestroOutsideType
<1>2. ASSUME NEW p \in Pods, Reconcile(p) PROVE TypeOK'
  BY <1>2, MaestroReconcileType
<1>3. CASE Aggregate
  BY <1>3, MaestroAggregateType
<1>4. CASE Restart \/ \E p \in Pods : Start(p) \/ Stop(p)
  BY <1>4, MaestroLifeType
<1>5. CASE UNCHANGED vars
  BY <1>5 DEF vars, clusterVars, propVars, aggVars, bounds, TypeOK
<1>6. QED
  BY <1>1, <1>2, <1>3, <1>4, <1>5, Zenon DEF Next

\* Reconcile and the aggregation's cycle keep every variable in its set, and what
\* UpdateArgoCDAppStatus is about to write is a status that was reported.
THEOREM MaestroTypeCorrect == Spec => []TypeOK
<1>1. Init => TypeOK
  <2>1. NoApplication \in Application /\ NoWork \in Work
    BY MaestroRecords, Zenon
  <2>2. Init => hub \in Application
    <3>1. {TRUE} \subseteq BOOLEAN /\ {FALSE} \subseteq BOOLEAN /\ Finalizers \subseteq BOOLEAN
      BY MaestroAssumption
    <3>2. {0} \subseteq Nat /\ {1} \subseteq Nat
      OBVIOUS
    <3>3. QED
      BY <3>1, <3>2, Zenon DEF Init, Application
  <2>3. Init => works \in [Clusters -> Work] /\ spoke \in [Clusters -> Nat]
    BY <2>1 DEF Init
  <2>4. Init => /\ present \subseteq Clusters /\ local \subseteq Clusters
                /\ changes \in 0..MaxChanges /\ faults \in 0..MaxFaults
                /\ crashes \in 0..MaxCrashes
    BY DEF Init
  <2>5. Init => /\ dirty \in [Pods -> BOOLEAN] /\ pc \in [Pods -> {"down"}]
                /\ app \in [Pods -> Application] /\ appFresh \in [Pods -> BOOLEAN]
                /\ work \in [Pods -> Work]
    BY <2>1 DEF Init
  <2>6. Init => /\ aPc = "idle" /\ aTodo = {} /\ aStatus = 0 /\ seen = NoApplication
                /\ seenFresh = FALSE /\ carried = {}
    BY Zenon DEF Init
  <2>7. Init => aPc = "idle" /\ aTodo = {} /\ aStatus = 0 /\ carried = {} /\ seenFresh \in BOOLEAN
    BY <2>6
  <2>8. Init => seen \in Application
    BY <2>1, <2>6, Zenon
  <2>9. QED
    BY <2>2, <2>3, <2>4, <2>5, <2>7, <2>8 DEF TypeOK
<1>2. QED
  BY <1>1, MaestroTypeStep, PTL DEF Spec
-----------------------------------------------------------------------------
(* What the controllers may take away, with any number of pods. *)

\* A copy that counts as current equals the Application: every write makes all stale.
CopiesCurrent == /\ \A p \in Pods : appFresh[p] => app[p] = hub
                 /\ seenFresh => aPc = "put" /\ seen = hub

\* A reconcile clears an operation, and after the ManifestWork carried it.
CarriedFirst == \A p \in Pods :
  pc[p] = "clear" => app[p].op # 0 /\ <<app[p].cluster, app[p].op>> \in carried

MaestroInv == TypeOK /\ CopiesCurrent /\ CarriedFirst

\* Users, agents and the aggregation touch no pod but through events and stale copies.
LEMMA MaestroOutsidePods ==
  ASSUME \/ EditApplication \/ DeleteApplication \/ Aggregate \/ Restart \/ UNCHANGED vars
         \/ \E c \in Clusters : DetachCluster(c) \/ Agent(c)
  PROVE  UNCHANGED <<pc, app, work, carried>>
BY Zenon DEF EditApplication, DeleteApplication, DetachCluster, Agent, Apply, Report, Retire,
     AgentUnchanged, Aggregate, HouseKeeping, ListWorks, GetHubApplication,
     UpdateArgoCDAppStatus, EndCycle, AggUnchanged, Restart, propVars, vars

\* The end of a reconcile.
LEMMA MaestroRest ==
  ASSUME TypeOK, NEW p \in Pods, Rest(p)
  PROVE  /\ pc'[p] = "idle" /\ app'[p] = NoApplication /\ appFresh'[p] = FALSE
         /\ \A q \in Pods \ {p} : /\ pc'[q] = pc[q] /\ app'[q] = app[q]
                                  /\ appFresh'[q] = appFresh[q]
         /\ UNCHANGED <<hub, seenFresh>>
BY DEF Rest, Leave, HubUnchanged, TypeOK

\* A call that goes on to the next.
LEMMA MaestroGo ==
  ASSUME TypeOK, NEW p \in Pods, NEW to, Go(p, to)
  PROVE  /\ pc'[p] = to /\ \A q \in Pods \ {p} : pc'[q] = pc[q]
         /\ UNCHANGED <<hub, seenFresh, app, appFresh, work>>
BY DEF Go, HubUnchanged, TypeOK

\* How a call of a reconcile ends.
LEMMA MaestroCalls ==
  ASSUME NEW p \in Pods, Reconcile(p)
  PROVE  /\ pc[p] \in Calls \ {"down"} /\ PropUnchanged
         /\ \/ Rest(p) \/ \E to \in Calls \ {"down"} : Go(p, to)
            \/ Take(p) \/ Read(p)
            \/ /\ GetWork(p) /\ pc' = [pc EXCEPT ![p] = "write"]
               /\ UNCHANGED <<app, appFresh>> /\ HubUnchanged
            \/ /\ pc[p] = "clear" /\ Updatable(p) /\ Leave(p)
               /\ WriteHub([app[p] EXCEPT !.op = 0, !.inCluster = TRUE])
            \/ /\ pc[p] = "finalize" /\ Updatable(p) /\ Leave(p)
               /\ WriteHub([app[p] EXCEPT !.finalizer = FALSE, !.exists = FALSE])
<1>1. Retry(p) \/ Done(p) => Rest(p)
  BY Zenon DEF Retry, Done
<1>2. ASSUME Take(p) \/ ClearOperation(p) \/ Finalize(p) \/ GetApplication(p) \/ GetWork(p)
      PROVE  pc[p] \in Calls \ {"down"}
  BY <1>2 DEF Take, ClearOperation, Finalize, GetApplication, GetWork, Calls
<1>3. ASSUME IsLocalCluster(p) \/ CheckCluster(p) \/ PutWork(p) \/ FindWork(p) \/ DeleteWork(p)
      PROVE  pc[p] \in Calls \ {"down"} /\ (Rest(p) \/ \E to \in Calls \ {"down"} : Go(p, to))
  <2>1. pc[p] \in Calls \ {"down"}
    BY <1>3 DEF IsLocalCluster, CheckCluster, PutWork, FindWork, DeleteWork, Calls
  <2>2. ToWork(p) => \E to \in Calls \ {"down"} : Go(p, to)
    BY DEF ToWork, Calls
  <2>3. \/ Rest(p) \/ Go(p, "work") \/ Go(p, "clear") \/ Go(p, "finalize") \/ Go(p, "delete")
        \/ ToWork(p)
    BY <1>1, <1>3, Zenon DEF IsLocalCluster, Unread, CheckCluster, PutWork, FindWork, DeleteWork,
                             AfterDeleteFails
  <2>4. {"work", "clear", "finalize", "delete"} \subseteq Calls \ {"down"}
    BY DEF Calls
  <2>5. QED
    BY <2>1, <2>2, <2>3, <2>4
<1>4. PropUnchanged
  BY Zenon DEF Reconcile, Take, GetApplication, IsLocalCluster, CheckCluster, GetWork, PutWork,
               ClearOperation, FindWork, DeleteWork, Finalize
<1>5. ASSUME GetApplication(p) PROVE Rest(p) \/ Read(p)
  BY <1>1, <1>5, Zenon DEF GetApplication
<1>6. ASSUME GetWork(p)
      PROVE  Rest(p) \/ (/\ pc' = [pc EXCEPT ![p] = "write"]
                         /\ UNCHANGED <<app, appFresh>> /\ HubUnchanged)
  BY <1>1, <1>6, Zenon DEF GetWork
<1>7. ASSUME ClearOperation(p) \/ Finalize(p)
      PROVE  \/ Rest(p)
             \/ /\ pc[p] = "clear" /\ Updatable(p) /\ Leave(p)
                /\ WriteHub([app[p] EXCEPT !.op = 0, !.inCluster = TRUE])
             \/ /\ pc[p] = "finalize" /\ Updatable(p) /\ Leave(p)
                /\ WriteHub([app[p] EXCEPT !.finalizer = FALSE, !.exists = FALSE])
  BY <1>1, <1>7, Zenon DEF ClearOperation, Finalize, Commit
<1>8. QED
  BY <1>2, <1>3, <1>4, <1>5, <1>6, <1>7, Zenon DEF Reconcile

\* A reconcile moves its own pod only, and between its calls.
LEMMA MaestroPodStep ==
  ASSUME TypeOK, NEW p \in Pods, Reconcile(p)
  PROVE  /\ pc[p] # "down" /\ pc'[p] # "down"
         /\ \A q \in Pods \ {p} : pc'[q] = pc[q] /\ app'[q] = app[q]
<1>1. pc[p] # "down"
  BY MaestroCalls
<1>2. CASE Rest(p)
  BY <1>1, <1>2, MaestroRest
<1>3. CASE \E to \in Calls \ {"down"} : Go(p, to)
  BY <1>1, <1>3, MaestroGo
<1>4. CASE Leave(p)
  BY <1>1, <1>4 DEF Leave, TypeOK
<1>5. CASE Take(p) \/ Read(p)
  BY <1>1, <1>5 DEF Take, Read, TypeOK
<1>6. CASE pc' = [pc EXCEPT ![p] = "write"] /\ UNCHANGED app
  BY <1>1, <1>6 DEF TypeOK
<1>7. QED
  BY <1>2, <1>3, <1>4, <1>5, <1>6, MaestroCalls

\* A pod that starts has read nothing yet.
LEMMA MaestroLife ==
  ASSUME TypeOK, NEW p \in Pods, Start(p) \/ Stop(p)
  PROVE  /\ UNCHANGED <<hub, seenFresh, works, carried, aPc, seen, present, spoke>>
         /\ pc'[p] \in {"down", "idle"} /\ \A q \in Pods \ {p} : pc'[q] = pc[q]
         /\ UNCHANGED <<app, appFresh>> \/ (app'[p] = NoApplication /\ appFresh'[p] = FALSE)
         /\ \A q \in Pods \ {p} : app'[q] = app[q] /\ appFresh'[q] = appFresh[q]
<1> USE DEF PodUnchanged, PropUnchanged, clusterVars, aggVars
<1>1. CASE Start(p)
  BY <1>1 DEF Start, TypeOK
<1>2. CASE Stop(p)
  BY <1>2 DEF Stop, TypeOK
<1>3. QED
  BY <1>1, <1>2

\* Each copy is dropped, read anew or kept with the Application it was read from.
LEMMA MaestroCopies ==
  ASSUME TypeOK, CopiesCurrent, [Next]_vars
  PROVE  CopiesCurrent'
<1>1. ASSUME NEW a, WriteHub(a) PROVE CopiesCurrent'
  BY <1>1 DEF WriteHub, CopiesCurrent
<1>2. CASE EditApplication
  <2>1. \E a : WriteHub(a)
    BY <1>2, Zenon DEF EditApplication
  <2>2. QED
    BY <1>1, <2>1
<1>3. CASE DeleteApplication
  BY <1>1, <1>3, Zenon DEF DeleteApplication
<1>4. ASSUME NEW c \in Clusters, DetachCluster(c) \/ Agent(c) PROVE CopiesCurrent'
  <2>1. UNCHANGED <<hub, app, appFresh, aPc, seen, seenFresh>>
    BY <1>4, Zenon
       DEF DetachCluster, Agent, Apply, Report, Retire, AgentUnchanged, propVars, aggVars
  <2>2. QED
    BY <2>1, Zenon DEF CopiesCurrent
<1>5. ASSUME NEW p \in Pods, UNCHANGED <<hub, seenFresh, aPc, seen>>,
             appFresh'[p] => app'[p] = hub \/ (app'[p] = app[p] /\ appFresh[p]),
             \A q \in Pods \ {p} : app'[q] = app[q] /\ appFresh'[q] = appFresh[q]
      PROVE  CopiesCurrent'
  BY <1>5 DEF CopiesCurrent
<1>6. ASSUME NEW p \in Pods, Reconcile(p) PROVE CopiesCurrent'
  <2>1. UNCHANGED <<aPc, seen>>
    BY <1>6, MaestroCalls, Zenon DEF PropUnchanged, aggVars
  <2>2. CASE Rest(p)
    BY <1>5, <2>1, <2>2, MaestroRest
  <2>3. CASE UNCHANGED <<app, appFresh>> /\ HubUnchanged
    BY <1>5, <2>1, <2>3 DEF HubUnchanged
  <2>4. CASE Take(p)
    BY <2>3, <2>4, Zenon DEF Take
  <2>5. CASE Read(p)
    <3>1. /\ app'[p] = hub /\ UNCHANGED <<hub, seenFresh>>
          /\ \A q \in Pods \ {p} : app'[q] = app[q] /\ appFresh'[q] = appFresh[q]
      BY <2>5 DEF Read, HubUnchanged, TypeOK
    <3>2. QED
      BY <1>5, <2>1, <3>1
  <2>6. (\E to \in Calls \ {"down"} : Go(p, to)) => UNCHANGED <<app, appFresh>> /\ HubUnchanged
    BY Zenon DEF Go
  <2>7. QED
    BY <1>1, <1>6, <2>2, <2>3, <2>4, <2>5, <2>6, MaestroCalls, Zenon
<1>7. ASSUME NEW p \in Pods, Start(p) \/ Stop(p) PROVE CopiesCurrent'
  BY <1>5, <1>7, MaestroLife
<1>8. CASE Aggregate
  <2>1. AggUnchanged => UNCHANGED app
    BY Zenon DEF AggUnchanged, propVars
  <2>2. CASE HouseKeeping
    <3>1. UNCHANGED <<hub, app, appFresh, seen, seenFresh>> /\ aPc # "put"
      BY <2>1, <2>2 DEF HouseKeeping, NoHubWrite
    <3>2. QED
      BY <3>1, Zenon DEF CopiesCurrent
  <2>3. CASE GetHubApplication
    <3>1. aPc # "put" /\ UNCHANGED <<hub, app, appFresh>>
      BY <2>1, <2>3 DEF GetHubApplication, NoHubWrite
    <3>2. (seen' = hub /\ aPc' = "put") \/ UNCHANGED seenFresh
      BY <2>3, Zenon DEF GetHubApplication
    <3>3. QED
      BY <3>1, <3>2 DEF CopiesCurrent
  <2>4. CASE UpdateArgoCDAppStatus
    <3>1. CASE NoHubWrite /\ seenFresh' = FALSE
      <4>1. UNCHANGED app
        BY <2>1, <2>4, Zenon DEF UpdateArgoCDAppStatus
      <4>2. QED
        BY <3>1, <4>1 DEF NoHubWrite, CopiesCurrent
    <3>2. QED
      BY <1>1, <2>4, <3>1, Zenon DEF UpdateArgoCDAppStatus
  <2>5. CASE EndCycle \/ \E c \in Clusters : ListWorks(c)
    <3>1. aPc # "put" /\ UNCHANGED <<hub, app, appFresh, seenFresh>>
      BY <2>1, <2>5 DEF EndCycle, ListWorks, NoHubWrite
    <3>2. QED
      BY <3>1, Zenon DEF CopiesCurrent
  <2>6. QED
    BY <1>8, <2>2, <2>3, <2>4, <2>5, Zenon DEF Aggregate
<1>9. CASE Restart
  <2>1. seenFresh' = FALSE /\ UNCHANGED <<hub, app, appFresh>>
    BY <1>9, Zenon DEF Restart, NoHubWrite, AggUnchanged, propVars
  <2>2. QED
    BY <2>1 DEF CopiesCurrent
<1>10. CASE UNCHANGED vars
  BY <1>10, Zenon DEF vars, propVars, aggVars, CopiesCurrent
<1>11. QED
  BY <1>2, <1>3, <1>4, <1>6, <1>7, <1>8, <1>9, <1>10, Zenon DEF Next

\* Steps keep what was carried before it is cleared.
LEMMA MaestroCarries ==
  ASSUME TypeOK, CarriedFirst, [Next]_vars
  PROVE  CarriedFirst'
<1>1. CASE \/ EditApplication \/ DeleteApplication \/ Aggregate \/ Restart \/ UNCHANGED vars
           \/ \E c \in Clusters : DetachCluster(c) \/ Agent(c)
  <2>1. UNCHANGED <<pc, app, carried>>
    BY <1>1, MaestroOutsidePods, Zenon
  <2>2. QED
    BY <2>1, Zenon DEF CarriedFirst
<1>2. ASSUME NEW p \in Pods, pc'[p] # "clear", carried \subseteq carried',
             \A q \in Pods \ {p} : pc'[q] = pc[q] /\ app'[q] = app[q]
      PROVE  CarriedFirst'
  BY <1>2 DEF CarriedFirst
<1>3. ASSUME NEW p \in Pods, Start(p) \/ Stop(p) PROVE CarriedFirst'
  <2>1. UNCHANGED carried /\ pc'[p] # "clear" /\ \A q \in Pods \ {p} : pc'[q] = pc[q]
    BY <1>3, MaestroLife
  <2>2. \A q \in Pods \ {p} : app'[q] = app[q]
    BY <1>3, MaestroLife
  <2>3. QED
    BY <1>2, <2>1, <2>2
<1>4. ASSUME NEW p \in Pods, Reconcile(p) PROVE CarriedFirst'
  <2>1. \A q \in Pods \ {p} : pc'[q] = pc[q] /\ app'[q] = app[q]
    BY <1>4, MaestroPodStep
  <2>2. Rest(p) => pc'[p] = "idle"
    BY MaestroRest
  <2>3. CASE PutWork(p)
    <3>1. CASE /\ Go(p, "clear") /\ app[p].op # 0
               /\ carried' = carried \cup {<<app[p].cluster, app[p].op>>}
      <4>1. UNCHANGED app
        BY <3>1, Zenon DEF Go
      <4>2. QED
        BY <2>1, <3>1, <4>1 DEF CarriedFirst
    <3>2. CASE Rest(p) /\ UNCHANGED carried
      BY <1>2, <2>1, <2>2, <3>2
    <3>3. QED
      BY <2>3, <3>1, <3>2, Zenon DEF PutWork, Done, Retry
  <2>4. CASE ~PutWork(p)
    <3>1. UNCHANGED carried
      BY <1>4, <2>4, Zenon DEF Reconcile, Take, GetApplication, IsLocalCluster, CheckCluster,
                               GetWork, ClearOperation, FindWork, DeleteWork, Finalize
    <3>2. pc'[p] # "clear"
      <4>1. CASE Take(p)
        BY <4>1 DEF Take, TypeOK
      <4>2. CASE GetApplication(p)
        <5>1. Rest(p) \/ Read(p)
          BY <4>2, Zenon DEF GetApplication, Retry
        <5>2. QED
          BY <2>2, <5>1 DEF Read, TypeOK
      <4>3. CASE GetWork(p)
        <5>1. Rest(p) \/ pc' = [pc EXCEPT ![p] = "write"]
          BY <4>3, Zenon DEF GetWork, Retry
        <5>2. QED
          BY <2>2, <5>1 DEF TypeOK
      <4>4. CASE IsLocalCluster(p) \/ CheckCluster(p) \/ FindWork(p) \/ DeleteWork(p)
        <5>1. \/ Rest(p) \/ Go(p, "work") \/ Go(p, "finalize") \/ Go(p, "delete")
              \/ Go(p, IF app[p].deleting THEN "find" ELSE "check")
          BY <4>4, Zenon DEF IsLocalCluster, Unread, ToWork, CheckCluster, FindWork, DeleteWork,
                             AfterDeleteFails, Retry, Done
        <5>2. ASSUME NEW to, Go(p, to), to # "clear" PROVE pc'[p] # "clear"
          BY <5>2, MaestroGo
        <5>3. (IF app[p].deleting THEN "find" ELSE "check") # "clear"
          OBVIOUS
        <5>4. QED
          BY <2>2, <5>1, <5>2, <5>3
      <4>5. CASE ClearOperation(p) \/ Finalize(p)
        <5>1. Rest(p) \/ Leave(p)
          BY <4>5, Zenon DEF ClearOperation, Finalize, Commit, Retry
        <5>2. QED
          BY <2>2, <5>1 DEF Leave, TypeOK
      <4>6. QED
        BY <1>4, <2>4, <4>1, <4>2, <4>3, <4>4, <4>5, Zenon DEF Reconcile
    <3>3. QED
      BY <1>2, <2>1, <3>1, <3>2
  <2>5. QED
    BY <2>3, <2>4
<1>5. QED
  BY <1>1, <1>3, <1>4, Zenon DEF Next

\* However many pods there are: as long as a copy of the Application (app of Reconcile, seen of
\* UpdateArgoCDAppStatus) counts as current it is what the hub holds, and an operation is cleared
\* after PutWork carried it.
THEOREM MaestroInvariant == Spec => []MaestroInv
<1>1. Init => CopiesCurrent /\ CarriedFirst
  <2> SUFFICES ASSUME Init PROVE CopiesCurrent /\ CarriedFirst
    OBVIOUS
  <2>1. /\ \A p \in Pods : appFresh[p] = FALSE /\ pc[p] = "down"
        /\ seenFresh = FALSE
    BY DEF Init
  <2>2. QED
    BY <2>1 DEF CopiesCurrent, CarriedFirst
<1>2. TypeOK /\ CopiesCurrent /\ [Next]_vars => CopiesCurrent'
  BY MaestroCopies
<1>3. TypeOK /\ CarriedFirst /\ [Next]_vars => CarriedFirst'
  BY MaestroCarries
<1>4. QED
  BY <1>1, <1>2, <1>3, MaestroTypeCorrect, PTL DEF Spec, MaestroInv

\* Who changes the Application: a user, the clearing, the finalizing or a status.
LEMMA MaestroHubChange ==
  ASSUME MaestroInv, [Next]_vars, hub' # hub
  PROVE  \/ EditApplication \/ DeleteApplication
         \/ \E p \in Pods :
              /\ pc[p] = "clear" /\ app[p] = hub /\ hub.exists
              /\ WriteHub([hub EXCEPT !.op = 0, !.inCluster = TRUE])
         \/ \E p \in Pods :
              /\ pc[p] = "finalize" /\ app[p] = hub /\ hub.exists
              /\ WriteHub([hub EXCEPT !.finalizer = FALSE, !.exists = FALSE])
         \/ hub.exists /\ WriteHub([hub EXCEPT !.status = aStatus])
<1>0. TypeOK /\ (seenFresh => seen = hub) /\ \A p \in Pods : appFresh[p] => app[p] = hub
  BY Zenon DEF MaestroInv, CopiesCurrent
<1>1. ASSUME NEW p \in Pods, Reconcile(p)
      PROVE  \/ /\ pc[p] = "clear" /\ app[p] = hub /\ hub.exists
                /\ WriteHub([hub EXCEPT !.op = 0, !.inCluster = TRUE])
             \/ /\ pc[p] = "finalize" /\ app[p] = hub /\ hub.exists
                /\ WriteHub([hub EXCEPT !.finalizer = FALSE, !.exists = FALSE])
  <2>1. ~HubUnchanged
    BY Zenon DEF HubUnchanged
  <2>2. ~Rest(p) /\ ~Take(p) /\ ~Read(p) /\ ~ \E to \in Calls \ {"down"} : Go(p, to)
    BY <2>1, Zenon DEF Rest, Take, Read, Go
  <2>3. Updatable(p) => hub.exists /\ app[p] = hub
    BY <1>0, Zenon DEF Updatable
  <2>4. QED
    BY <1>1, <2>1, <2>2, <2>3, MaestroCalls, Zenon
<1>2. CASE Aggregate
  <2>1. ~NoHubWrite
    BY Zenon DEF NoHubWrite
  <2>2. Writable /\ WriteHub([seen EXCEPT !.status = aStatus])
    BY <1>2, <2>1, Zenon
       DEF Aggregate, HouseKeeping, ListWorks, GetHubApplication, UpdateArgoCDAppStatus, EndCycle
  <2>3. hub.exists /\ seen = hub
    BY <1>0, <2>2, Zenon DEF Writable
  <2>4. QED
    BY <2>2, <2>3, Zenon
<1>3. ~(Restart \/ UNCHANGED vars \/ \E c \in Clusters : DetachCluster(c) \/ Agent(c))
  BY Zenon DEF Restart, NoHubWrite, vars, DetachCluster, Agent, Apply, Report, Retire,
               AgentUnchanged
<1>4. \A p \in Pods : ~Start(p) /\ ~Stop(p)
  BY <1>0, MaestroLife
<1>5. QED
  BY <1>1, <1>2, <1>3, <1>4, Zenon DEF Next

\* A user's write counts as a change.
LEMMA MaestroUsersCount ==
  ASSUME TypeOK, EditApplication \/ DeleteApplication
  PROVE  changes' # changes
<1>1. changes' = changes + 1
  BY Zenon DEF EditApplication, DeleteApplication, Change
<1>2. changes \in Nat
  BY DEF TypeOK
<1>3. QED
  BY <1>1, <1>2

\* What the three writes of the controllers leave in the Application.
LEMMA MaestroFields ==
  ASSUME NEW a \in Application, NEW n \in Nat, NEW b,
         \/ b = [a EXCEPT !.op = 0, !.inCluster = TRUE]
         \/ b = [a EXCEPT !.status = n]
  PROVE  /\ b = [a EXCEPT !.status = b.status, !.op = b.op, !.inCluster = b.inCluster]
         /\ b.exists = a.exists /\ b.deleting = a.deleting /\ b.finalizer = a.finalizer
         /\ b.ver = a.ver
<1>1. CASE b = [a EXCEPT !.op = 0, !.inCluster = TRUE]
  <2>1. b = [exists |-> a.exists, deleting |-> a.deleting, finalizer |-> a.finalizer,
             cluster |-> a.cluster, ver |-> a.ver, op |-> 0, status |-> a.status,
             inCluster |-> TRUE, sameNs |-> a.sameNs]
    BY <1>1 DEF Application
  <2>2. QED
    BY <1>1, <2>1 DEF Application
<1>2. CASE b = [a EXCEPT !.status = n]
  <2>1. b = [exists |-> a.exists, deleting |-> a.deleting, finalizer |-> a.finalizer,
             cluster |-> a.cluster, ver |-> a.ver, op |-> a.op, status |-> n,
             inCluster |-> a.inCluster, sameNs |-> a.sameNs]
    BY <1>2 DEF Application
  <2>2. QED
    BY <1>2, <2>1 DEF Application
<1>3. QED
  BY <1>1, <1>2

\* The fields that are written.
LEMMA MaestroWritten ==
  ASSUME NEW a \in Application, NEW n \in Nat
  PROVE  /\ [a EXCEPT !.op = 0, !.inCluster = TRUE].op = 0
         /\ [a EXCEPT !.op = 0, !.inCluster = TRUE].status = a.status
         /\ a.op = 0 => [a EXCEPT !.op = 0, !.inCluster = TRUE].op = a.op
         /\ [a EXCEPT !.status = n].status = n /\ [a EXCEPT !.status = n].op = a.op
         /\ [a EXCEPT !.status = n].inCluster = a.inCluster
         /\ [a EXCEPT !.finalizer = FALSE, !.exists = FALSE].exists = FALSE
         /\ [a EXCEPT !.finalizer = FALSE, !.exists = FALSE].op = a.op
BY DEF Application

\* The safety properties that hold of any number of pods, step by step.
LEMMA MaestroStep ==
  ASSUME MaestroInv, [Next]_vars
  PROVE  /\ hub.op # 0 /\ hub'.op # hub.op /\ UNCHANGED changes
              => <<hub.cluster, hub.op>> \in carried
         /\ hub'.exists /\ UNCHANGED changes =>
              /\ hub' = [hub EXCEPT !.status = hub'.status, !.op = hub'.op,
                                    !.inCluster = hub'.inCluster]
              /\ hub'.status # hub.status => aStatus = hub'.status /\ hub'.op = hub.op
              /\ hub'.op # hub.op => hub'.op = 0
              /\ hub'.inCluster # hub.inCluster => hub.op # 0 /\ hub'.op = 0
<1>0. /\ TypeOK /\ hub \in Application /\ aStatus \in Nat
      /\ \A p \in Pods : pc[p] = "clear" =>
           app[p].op # 0 /\ <<app[p].cluster, app[p].op>> \in carried
  BY DEF MaestroInv, TypeOK, CarriedFirst
<1>1. CASE hub' = hub
  <2>1. hub = [hub EXCEPT !.status = hub.status, !.op = hub.op, !.inCluster = hub.inCluster]
    BY <1>0 DEF Application
  <2>2. QED
    BY <1>1, <2>1, Zenon
<1>2. CASE EditApplication \/ DeleteApplication
  BY <1>0, <1>2, MaestroUsersCount
<1>3. ASSUME NEW p \in Pods, pc[p] = "clear", app[p] = hub,
             hub' = [hub EXCEPT !.op = 0, !.inCluster = TRUE]
      PROVE  /\ <<hub.cluster, hub.op>> \in carried
             /\ hub' = [hub EXCEPT !.status = hub'.status, !.op = hub'.op,
                                   !.inCluster = hub'.inCluster]
             /\ hub'.status = hub.status /\ hub'.op = 0 /\ hub.op # 0
  <2>1. hub'.status = hub.status /\ hub'.op = 0
    BY <1>0, <1>3, MaestroWritten, Zenon
  <2>2. hub' = [hub EXCEPT !.status = hub'.status, !.op = hub'.op, !.inCluster = hub'.inCluster]
    <3>1. PICK b : b = hub'
      OBVIOUS
    <3>2. b = [hub EXCEPT !.op = 0, !.inCluster = TRUE]
      BY <1>3, <3>1, Zenon
    <3>3. b = [hub EXCEPT !.status = b.status, !.op = b.op, !.inCluster = b.inCluster]
      BY <1>0, <3>2, MaestroFields, Zenon
    <3>4. QED
      BY <3>1, <3>3, Zenon
  <2>3. QED
    BY <1>0, <1>3, <2>1, <2>2, Zenon
<1>4. ASSUME hub' = [hub EXCEPT !.status = aStatus]
      PROVE  /\ hub' = [hub EXCEPT !.status = hub'.status, !.op = hub'.op,
                                   !.inCluster = hub'.inCluster]
             /\ hub'.status = aStatus /\ hub'.op = hub.op /\ hub'.inCluster = hub.inCluster
  <2>1. hub'.status = aStatus /\ hub'.op = hub.op /\ hub'.inCluster = hub.inCluster
    BY <1>0, <1>4, MaestroWritten, Zenon
  <2>2. hub' = [hub EXCEPT !.status = hub'.status, !.op = hub'.op, !.inCluster = hub'.inCluster]
    BY <1>0, <1>4, MaestroFields, Zenon
  <2>3. QED
    BY <2>1, <2>2, Zenon
<1>5. ASSUME hub' = [hub EXCEPT !.finalizer = FALSE, !.exists = FALSE]
      PROVE  hub'.exists = FALSE /\ hub'.op = hub.op
  BY <1>0, <1>5, MaestroWritten, Zenon
<1>6. QED
  BY <1>1, <1>2, <1>3, <1>4, <1>5, MaestroHubChange, Zenon DEF WriteHub

\* Reconcile removes an operation from the hub Application only after a ManifestWork of its
\* cluster carried it, whatever other pods and the aggregation write in between.
THEOREM MaestroOperationCarried == Spec => OperationCarried
<1>1. MaestroInv /\ [Next]_vars =>
        [hub.op # 0 /\ hub'.op # hub.op /\ UNCHANGED changes
           => <<hub.cluster, hub.op>> \in carried]_vars
  BY MaestroStep, Zenon
<1>2. QED
  BY <1>1, MaestroInvariant, PTL DEF Spec, OperationCarried

\* The Updates of Reconcile and UpdateArgoCDAppStatus write the whole Application, and neither
\* takes back what a user or the other wrote, since an older copy is refused: but for the
\* destination, which goes with an operation that is cleared.
THEOREM MaestroNothingTakenBack == Spec => NothingTakenBack
<1>1. MaestroInv /\ [Next]_vars =>
        [hub'.exists /\ UNCHANGED changes =>
           /\ hub' = [hub EXCEPT !.status = hub'.status, !.op = hub'.op,
                                 !.inCluster = hub'.inCluster]
           /\ hub'.status # hub.status => aStatus = hub'.status /\ hub'.op = hub.op
           /\ hub'.op # hub.op => hub'.op = 0
           /\ hub'.inCluster # hub.inCluster => hub.op # 0 /\ hub'.op = 0]_vars
  BY MaestroStep, Zenon
<1>2. QED
  BY <1>1, MaestroInvariant, PTL DEF Spec, NothingTakenBack
-----------------------------------------------------------------------------
(* What the calls of the pods do to the ManifestWorks and to what they have read. *)

\* WriteWork changes the ManifestWork of one cluster only.
LEMMA MaestroWorkAt ==
  ASSUME TypeOK, NEW c \in Clusters, NEW w, WriteWork(c, w)
  PROVE  works'[c] = w /\ \A d \in Clusters \ {c} : works'[d] = works[d]
BY DEF WriteWork, TypeOK

\* A step leaves ManifestWorks and clusters alone, or it is one of a cluster, or a write of a pod,
\* which leaves the Application alone.
LEMMA MaestroWorkEffect ==
  ASSUME TypeOK, [Next]_vars
  PROVE  \/ UNCHANGED <<present, works, spoke>>
         \/ \E c \in Clusters : DetachCluster(c) \/ Apply(c) \/ Report(c) \/ Retire(c)
         \/ \E p \in Pods :
              /\ UNCHANGED <<hub, present, spoke>>
              /\ \/ /\ pc[p] = "write" /\ pc'[p] \in {"idle", "clear"}
                    /\ WriteWork(app[p].cluster, Generated(p))
                 \/ /\ pc[p] = "delete" /\ works[app[p].cluster].state # "none"
                    /\ WriteWork(app[p].cluster,
                                 [works[app[p].cluster] EXCEPT !.state = "deleting"])
<1>1. ASSUME NEW p \in Pods, Reconcile(p)
      PROVE  \/ UNCHANGED <<present, works, spoke>>
             \/ /\ UNCHANGED <<hub, present, spoke>>
                /\ \/ /\ pc[p] = "write" /\ pc'[p] \in {"idle", "clear"}
                      /\ WriteWork(app[p].cluster, Generated(p))
                   \/ /\ pc[p] = "delete" /\ works[app[p].cluster].state # "none"
                      /\ WriteWork(app[p].cluster,
                                   [works[app[p].cluster] EXCEPT !.state = "deleting"])
  <2>1. UNCHANGED <<present, spoke>>
    BY <1>1, MaestroCalls, Zenon DEF PropUnchanged, clusterVars
  <2>2. CASE ~PutWork(p) /\ ~DeleteWork(p)
    BY <1>1, <2>1, <2>2, Zenon DEF Reconcile, Take, GetApplication, IsLocalCluster,
                                   CheckCluster, GetWork, ClearOperation, FindWork, Finalize
  <2>3. CASE PutWork(p)
    <3>1. \/ UNCHANGED works
          \/ /\ pc[p] = "write" /\ (Go(p, "clear") \/ Rest(p))
             /\ WriteWork(app[p].cluster, Generated(p))
      BY <2>3, Zenon DEF PutWork, Done
    <3>2. Go(p, "clear") \/ Rest(p) => UNCHANGED hub /\ pc'[p] \in {"idle", "clear"}
      BY MaestroGo, MaestroRest
    <3>3. QED
      BY <2>1, <3>1, <3>2, Zenon
  <2>4. CASE DeleteWork(p)
    BY <2>1, <2>4, Zenon DEF DeleteWork, Go, HubUnchanged
  <2>5. QED
    BY <2>2, <2>3, <2>4
<1>2. CASE \E c \in Clusters : DetachCluster(c) \/ Agent(c)
  BY <1>2, Zenon DEF Agent
<1>3. CASE EditApplication \/ DeleteApplication \/ Aggregate \/ Restart \/ UNCHANGED vars
  BY <1>3, Zenon DEF EditApplication, DeleteApplication, Aggregate, HouseKeeping, ListWorks,
       GetHubApplication, UpdateArgoCDAppStatus, EndCycle, AggUnchanged, Restart, clusterVars, vars
<1>4. ASSUME NEW p \in Pods, Start(p) \/ Stop(p) PROVE UNCHANGED <<present, works, spoke>>
  BY <1>4, MaestroLife
<1>5. QED
  BY <1>1, <1>2, <1>3, <1>4, Zenon DEF Next

\* The ManifestWork that DeleteWork leaves, and one that got a feedback.
LEMMA MaestroDeleted ==
  ASSUME NEW w \in Work, NEW n \in Nat
  PROVE  /\ [w EXCEPT !.state = "deleting"] \in Work /\ [w EXCEPT !.feedback = n] \in Work
         /\ [w EXCEPT !.state = "deleting"].ver = w.ver
         /\ [w EXCEPT !.state = "deleting"].state = "deleting"
         /\ [w EXCEPT !.feedback = n].ver = w.ver /\ [w EXCEPT !.feedback = n].state = w.state
BY DEF Work

\* Only PutWork gives a ManifestWork another spec, or makes one live.
LEMMA MaestroRenewed ==
  ASSUME TypeOK, [Next]_vars, \A p \in Pods : ~(pc[p] = "write" /\ pc'[p] \in {"idle", "clear"})
  PROVE  \A d \in Clusters : /\ works'[d].ver \in {0, works[d].ver}
                             /\ works'[d].state = "live" => works[d].state = "live"
<1>1. \A d \in Clusters : works[d] \in Work /\ spoke[d] \in Nat
  BY DEF TypeOK
<1>2. ASSUME NEW c \in Clusters, NEW w, WriteWork(c, w), w.ver \in {0, works[c].ver},
             w.state = "live" => works[c].state = "live"
      PROVE  \A d \in Clusters : /\ works'[d].ver \in {0, works[d].ver}
                                 /\ works'[d].state = "live" => works[d].state = "live"
  BY <1>2, MaestroWorkAt
<1>3. CASE UNCHANGED works
  BY <1>3
<1>4. ASSUME NEW c \in Clusters, Report(c)
      PROVE  \A d \in Clusters : /\ works'[d].ver \in {0, works[d].ver}
                                 /\ works'[d].state = "live" => works[d].state = "live"
  <2>1. WriteWork(c, [works[c] EXCEPT !.feedback = spoke[c]])
    BY <1>4, Zenon DEF Report
  <2>2. /\ [works[c] EXCEPT !.feedback = spoke[c]].ver = works[c].ver
        /\ [works[c] EXCEPT !.feedback = spoke[c]].state = works[c].state
    BY <1>1, MaestroDeleted
  <2>3. QED
    BY <1>2, <2>1, <2>2
<1>5. ASSUME NEW c \in Clusters, Retire(c)
      PROVE  \A d \in Clusters : /\ works'[d].ver \in {0, works[d].ver}
                                 /\ works'[d].state = "live" => works[d].state = "live"
  <2>1. WriteWork(c, NoWork)
    BY <1>5, Zenon DEF Retire
  <2>2. NoWork.ver = 0 /\ NoWork.state = "none"
    BY DEF NoWork
  <2>3. QED
    BY <1>2, <2>1, <2>2
<1>6. ASSUME NEW p \in Pods,
             WriteWork(app[p].cluster, [works[app[p].cluster] EXCEPT !.state = "deleting"])
      PROVE  \A d \in Clusters : /\ works'[d].ver \in {0, works[d].ver}
                                 /\ works'[d].state = "live" => works[d].state = "live"
  <2>1. app[p].cluster \in Clusters /\ works[app[p].cluster] \in Work
    BY MaestroApp
  <2>2. /\ [works[app[p].cluster] EXCEPT !.state = "deleting"].ver = works[app[p].cluster].ver
        /\ [works[app[p].cluster] EXCEPT !.state = "deleting"].state = "deleting"
    BY <2>1, MaestroDeleted
  <2>3. QED
    BY <1>2, <1>6, <2>1, <2>2
<1>7. (\E c \in Clusters : DetachCluster(c) \/ Apply(c)) => UNCHANGED works
  BY Zenon DEF DetachCluster, Apply
<1>8. QED
  BY <1>3, <1>4, <1>5, <1>6, <1>7, MaestroWorkEffect, Zenon

Writing  == {"local", "check", "work", "write"}
Removing == {"find", "delete", "finalize"}

\* Where a reconcile comes from: it reads the Application and goes on with that one until it ends,
\* towards a deletion if the Application is being deleted, and it lets go of it after that.
LEMMA MaestroReadFrom ==
  ASSUME TypeOK, [Next]_vars, NEW p \in Pods
  PROVE  \/ /\ app'[p] = app[p]
            /\ pc'[p] \in Writing => pc[p] \in Writing
            /\ pc'[p] \in Removing => pc[p] \in Removing \/ app[p].deleting
            /\ pc'[p] = "finalize" =>
                 pc[p] = "finalize" \/ works'[app[p].cluster].state # "live"
         \/ app'[p] = hub /\ UNCHANGED <<hub, works>> /\ pc'[p] = "local"
         \/ app'[p] = NoApplication /\ pc'[p] \in {"down", "idle"}
<1> USE DEF Writing, Removing
<1>1. CASE \/ EditApplication \/ DeleteApplication \/ Aggregate \/ Restart \/ UNCHANGED vars
           \/ \E c \in Clusters : DetachCluster(c) \/ Agent(c)
  <2>1. UNCHANGED <<pc, app>>
    BY <1>1, MaestroOutsidePods, Zenon
  <2>2. QED
    BY <2>1
<1>2. ASSUME NEW q \in Pods, Start(q) \/ Stop(q)
      PROVE  \/ app'[p] = app[p] /\ pc'[p] \in {"down", "idle", pc[p]}
             \/ app'[p] = NoApplication /\ pc'[p] \in {"down", "idle"}
  BY <1>2, MaestroLife
<1>3. ASSUME NEW q \in Pods \ {p}, Reconcile(q) PROVE app'[p] = app[p] /\ pc'[p] = pc[p]
  BY <1>3, MaestroPodStep
<1>4. Rest(p) => app'[p] = NoApplication /\ pc'[p] = "idle"
  BY MaestroRest
<1>5. \A to : Go(p, to) => app'[p] = app[p] /\ pc'[p] = to
  BY MaestroGo
<1>6. CASE Take(p)
  BY <1>6 DEF Take, TypeOK
<1>7. CASE GetApplication(p)
  <2>1. Rest(p) \/ Read(p)
    BY <1>7, Zenon DEF GetApplication, Retry
  <2>2. UNCHANGED works
    BY <1>7, Zenon DEF GetApplication
  <2>3. Read(p) => app'[p] = hub /\ UNCHANGED hub /\ pc'[p] = "local"
    BY DEF Read, HubUnchanged, TypeOK
  <2>4. QED
    BY <1>4, <2>1, <2>2, <2>3
<1>8. CASE IsLocalCluster(p)
  <2>1. pc[p] = "local" /\ (Rest(p) \/ Go(p, IF app[p].deleting THEN "find" ELSE "check"))
    BY <1>8, Zenon DEF IsLocalCluster, Unread, ToWork, Done
  <2>2. CASE app[p].deleting
    BY <1>4, <1>5, <2>1, <2>2
  <2>3. CASE ~app[p].deleting
    BY <1>4, <1>5, <2>1, <2>3
  <2>4. QED
    BY <2>2, <2>3
<1>9. CASE CheckCluster(p)
  <2>1. pc[p] = "check" /\ (Go(p, "work") \/ Rest(p))
    BY <1>9, Zenon DEF CheckCluster, Retry
  <2>2. QED
    BY <1>4, <1>5, <2>1
<1>10. CASE GetWork(p)
  <2>1. /\ pc[p] = "work"
        /\ Rest(p) \/ (pc' = [pc EXCEPT ![p] = "write"] /\ UNCHANGED app)
    BY <1>10, Zenon DEF GetWork, Retry
  <2>2. QED
    BY <1>4, <2>1 DEF TypeOK
<1>11. CASE PutWork(p)
  <2>1. Go(p, "clear") \/ Rest(p)
    BY <1>11, Zenon DEF PutWork, Done, Retry
  <2>2. QED
    BY <1>4, <1>5, <2>1
<1>12. CASE FindWork(p)
  <2>1. /\ pc[p] = "find" /\ UNCHANGED works
        /\ \/ works[app[p].cluster].state = "none" /\ Go(p, "finalize")
           \/ Go(p, "delete") \/ Rest(p)
    BY <1>12, Zenon DEF FindWork, AfterDeleteFails, Retry
  <2>2. QED
    BY <1>4, <1>5, <2>1
<1>13. CASE DeleteWork(p)
  <2>1. /\ pc[p] = "delete"
        /\ \/ Rest(p)
           \/ /\ Go(p, "finalize")
              /\ WriteWork(app[p].cluster, [works[app[p].cluster] EXCEPT !.state = "deleting"])
    BY <1>13, Zenon DEF DeleteWork, AfterDeleteFails, Retry
  <2>2. CASE WriteWork(app[p].cluster, [works[app[p].cluster] EXCEPT !.state = "deleting"])
    <3>1. app[p].cluster \in Clusters /\ works[app[p].cluster] \in Work
      BY MaestroApp
    <3>2. works'[app[p].cluster] = [works[app[p].cluster] EXCEPT !.state = "deleting"]
      BY <2>2, <3>1, MaestroWorkAt, Zenon
    <3>3. works'[app[p].cluster].state # "live"
      BY <3>1, <3>2 DEF Work
    <3>4. QED
      BY <1>4, <1>5, <2>1, <3>3
  <2>3. QED
    BY <1>4, <2>1, <2>2
<1>14. CASE ClearOperation(p) \/ Finalize(p)
  <2>1. Rest(p) \/ Leave(p)
    BY <1>14, Zenon DEF ClearOperation, Finalize, Commit, Retry
  <2>2. QED
    BY <1>4, <2>1 DEF Leave, TypeOK
<1>15. QED
  <2>1. CASE \E q \in Pods : Start(q) \/ Stop(q)
    BY <1>2, <2>1
  <2>2. CASE \E q \in Pods \ {p} : Reconcile(q)
    BY <1>3, <2>2
  <2>3. CASE Reconcile(p)
    BY <1>6, <1>7, <1>8, <1>9, <1>10, <1>11, <1>12, <1>13, <1>14, <2>3, Zenon DEF Reconcile
  <2>4. QED
    BY <1>1, <2>1, <2>2, <2>3, Zenon DEF Next

-----------------------------------------------------------------------------
(* One pod at a time, as between two rolling restarts. *)

OnePod == \A p, q \in Pods : pc[p] # "down" /\ pc[q] # "down" => p = q

\* The finalizer is removed when the ManifestWork is gone or going.
DeletedFirst == \A p \in Pods : pc[p] = "finalize" => works[app[p].cluster].state # "live"

\* Steps keep the pods one: one starts only when none is alive.
LEMMA MaestroOnePodStep ==
  ASSUME MaxAlive = 1, TypeOK, OnePod, [Next]_vars
  PROVE  OnePod'
<1>1. ASSUME NEW p \in Pods, Start(p) PROVE OnePod'
  <2>1. ASSUME NEW q \in Pods, pc[q] # "down" PROVE FALSE
    <3>1. Alive = {q}
      BY <2>1 DEF Alive, OnePod
    <3>2. Cardinality(Alive) = 1
      BY <3>1, FS_Singleton
    <3>3. QED
      BY <1>1, <3>2 DEF Start
  <2>2. \A q \in Pods \ {p} : pc'[q] = "down"
    BY <1>1, <2>1, MaestroLife
  <2>3. QED
    BY <2>2 DEF OnePod
<1>2. ASSUME NEW p \in Pods, Stop(p) PROVE OnePod'
  BY <1>2 DEF Stop, OnePod, TypeOK
<1>3. ASSUME NEW p \in Pods, Reconcile(p) PROVE OnePod'
  BY <1>3, MaestroPodStep DEF OnePod
<1>4. CASE \/ EditApplication \/ DeleteApplication \/ Aggregate \/ Restart \/ UNCHANGED vars
           \/ \E c \in Clusters : DetachCluster(c) \/ Agent(c)
  <2>1. UNCHANGED pc
    BY <1>4, MaestroOutsidePods, Zenon
  <2>2. QED
    BY <2>1 DEF OnePod
<1>5. QED
  BY <1>1, <1>2, <1>3, <1>4, Zenon DEF Next

\* While one pod is past its write nobody writes a spec.
LEMMA MaestroAlone ==
  ASSUME TypeOK, OnePod, NEW p \in Pods, pc[p] # "down",
         ~(pc[p] = "write" /\ pc'[p] \in {"idle", "clear"})
  PROVE  \A q \in Pods : ~(pc[q] = "write" /\ pc'[q] \in {"idle", "clear"})
BY DEF OnePod

\* A step keeps the order of a deletion.
LEMMA MaestroDeletedStep ==
  ASSUME TypeOK, OnePod, DeletedFirst, [Next]_vars
  PROVE  DeletedFirst'
<1> SUFFICES ASSUME NEW p \in Pods, pc'[p] = "finalize"
             PROVE  works'[app'[p].cluster].state # "live"
  BY DEF DeletedFirst
<1>1. /\ app'[p] = app[p]
      /\ pc[p] = "finalize" \/ works'[app[p].cluster].state # "live"
  BY MaestroReadFrom
<1>2. CASE pc[p] = "finalize"
  <2>1. \A d \in Clusters : works'[d].state = "live" => works[d].state = "live"
    BY <1>2, MaestroAlone, MaestroRenewed
  <2>2. app[p].cluster \in Clusters /\ works[app[p].cluster].state # "live"
    BY <1>2, MaestroApp DEF DeletedFirst
  <2>3. QED
    BY <1>1, <2>1, <2>2
<1>3. QED
  BY <1>1, <1>2

\* With one pod at a time, Reconcile gets to the removal of the finalizer only when
\* deleteManifestworkFromMaestro found the ManifestWork gone or deleted it.
THEOREM MaestroOnePodInvariant == MaxAlive = 1 /\ Spec => [](OnePod /\ DeletedFirst)
<1> SUFFICES ASSUME MaxAlive = 1 PROVE Spec => [](OnePod /\ DeletedFirst)
  OBVIOUS
<1>1. Init => OnePod /\ DeletedFirst
  <2> SUFFICES ASSUME Init PROVE OnePod /\ DeletedFirst
    OBVIOUS
  <2>1. \A p \in Pods : pc[p] = "down"
    BY DEF Init
  <2>2. QED
    BY <2>1 DEF OnePod, DeletedFirst
<1>2. TypeOK /\ OnePod /\ DeletedFirst /\ [Next]_vars => (OnePod /\ DeletedFirst)'
  BY MaestroOnePodStep, MaestroDeletedStep, Zenon
<1>3. QED
  BY <1>1, <1>2, MaestroTypeCorrect, PTL DEF Spec

\* With one pod at a time, Reconcile removes the finalizer only after
\* deleteManifestworkFromMaestro succeeded for the cluster of the annotation, and nobody made the
\* ManifestWork anew in between.
THEOREM MaestroWorkGoesFirst == MaxAlive = 1 /\ Spec => WorkGoesFirst
<1>1. MaestroInv /\ DeletedFirst /\ [Next]_vars =>
        [hub.exists /\ hub.finalizer /\ ~hub'.exists
           => works[hub.cluster].state # "live"]_vars
  <2> SUFFICES ASSUME MaestroInv, DeletedFirst, [Next]_vars,
                      hub.exists, hub.finalizer, ~hub'.exists
               PROVE  works[hub.cluster].state # "live"
    OBVIOUS
  <2>0. hub \in Application /\ aStatus \in Nat
    BY DEF MaestroInv, TypeOK
  <2>1. CASE EditApplication
    <3>1. /\ [hub EXCEPT !.ver = changes' + 1, !.inCluster = FALSE].exists = hub.exists
          /\ [hub EXCEPT !.op = changes'].exists = hub.exists
          /\ \A c : [hub EXCEPT !.cluster = c].exists = hub.exists
      BY <2>0 DEF Application
    <3>2. QED
      BY <2>1, <3>1, Zenon DEF EditApplication, WriteHub
  <2>2. CASE DeleteApplication
    <3>1. hub.finalizer => [hub EXCEPT !.exists = hub.finalizer, !.deleting = TRUE].exists
      BY <2>0 DEF Application
    <3>2. QED
      BY <2>2, <3>1, Zenon DEF DeleteApplication, WriteHub
  <2>3. CASE \/ WriteHub([hub EXCEPT !.op = 0, !.inCluster = TRUE])
             \/ WriteHub([hub EXCEPT !.status = aStatus])
    <3>1. PICK b : /\ b = hub'
                   /\ \/ b = [hub EXCEPT !.op = 0, !.inCluster = TRUE]
                      \/ b = [hub EXCEPT !.status = aStatus]
      BY <2>3, Zenon DEF WriteHub
    <3>2. b.exists = hub.exists
      BY <2>0, <3>1, MaestroFields, Zenon
    <3>3. QED
      BY <3>1, <3>2, Zenon
  <2>4. ASSUME NEW p \in Pods, pc[p] = "finalize", app[p] = hub
        PROVE  works[hub.cluster].state # "live"
    BY <2>4, Zenon DEF DeletedFirst
  <2>5. QED
    BY <2>1, <2>2, <2>3, <2>4, MaestroHubChange, Zenon
<1>2. QED
  BY <1>1, MaestroInvariant, MaestroOnePodInvariant, PTL DEF Spec, WorkGoesFirst
-----------------------------------------------------------------------------
(* Both controllers and the agents implement Rollout. *)

\* The state that Rollout sees.
Asked   == [exists |-> hub.exists, ending |-> hub.deleting, held |-> hub.finalizer,
            cluster |-> hub.cluster, ver |-> hub.ver]
Offered == [c \in Clusters |-> [state |-> works[c].state, ver |-> works[c].ver]]

PlanStep == [Plan!Next]_<<Asked, present, Offered, spoke>>

\* A write of one ManifestWork is one of one offer.
LEMMA MaestroOfferedAt ==
  ASSUME TypeOK, NEW c \in Clusters, NEW w \in Work, works' = [works EXCEPT ![c] = w]
  PROVE  Offered' = [Offered EXCEPT ![c] = [state |-> w.state, ver |-> w.ver]]
<1>1. \A d \in Clusters : works'[d] = IF d = c THEN w ELSE works[d]
  BY DEF TypeOK
<1>2. QED
  BY <1>1 DEF Offered

\* What Rollout sees of a ManifestWork that is written with another spec.
LEMMA MaestroPlanOffer ==
  ASSUME TypeOK, NEW c \in Clusters, NEW w \in Work, works' = [works EXCEPT ![c] = w],
         works[c].ver <= w.ver, w.ver <= hub.ver,
         w.state = IF works[c].state = "none" THEN "live" ELSE works[c].state,
         UNCHANGED <<hub, present, spoke>>
  PROVE  PlanStep
<1>1. Offered[c] = [state |-> works[c].state, ver |-> works[c].ver]
  BY DEF Offered
<1>2. Offered' = [Offered EXCEPT ![c] = [state |-> IF @.state = "none" THEN "live" ELSE @.state,
                                          ver |-> w.ver]]
  <2> DEFINE o == [state |-> w.state, ver |-> w.ver]
  <2>1. o = [state |-> IF Offered[c].state = "none" THEN "live" ELSE Offered[c].state,
             ver |-> w.ver]
    BY <1>1
  <2>2. Offered' = [Offered EXCEPT ![c] = o]
    BY MaestroOfferedAt
  <2>3. QED
    BY <2>1, <2>2, Zenon
<1>3. w.ver \in Offered[c].ver .. Asked.ver
  BY <1>1 DEF Asked, TypeOK, Application, Work
<1>4. UNCHANGED <<Asked, present, spoke>>
  BY DEF Asked
<1>5. Plan!Offer(c)
  BY <1>2, <1>3, <1>4, Zenon DEF Plan!Offer, Asked, Offered
<1>6. QED
  BY <1>5, Zenon DEF PlanStep, Plan!Next

\* What it sees of one that is deleted while its Application is.
LEMMA MaestroPlanWithdraw ==
  ASSUME TypeOK, NEW c \in Clusters,
         works' = [works EXCEPT ![c] = [works[c] EXCEPT !.state = "deleting"]],
         works[c].state = "live", hub.deleting, UNCHANGED <<hub, present, spoke>>
  PROVE  PlanStep
<1>1. [works[c] EXCEPT !.state = "deleting"] \in Work
  BY DEF TypeOK, Work
<1>2. Offered[c] = [state |-> works[c].state, ver |-> works[c].ver]
  BY DEF Offered
<1>3. Offered' = [Offered EXCEPT ![c] = [state |-> "deleting", ver |-> works[c].ver]]
  <2> DEFINE w == [works[c] EXCEPT !.state = "deleting"]
  <2>1. w.state = "deleting" /\ w.ver = works[c].ver /\ w \in Work
    BY <1>1 DEF TypeOK, Work
  <2> HIDE DEF w
  <2>2. works' = [works EXCEPT ![c] = w]
    BY DEF w
  <2>3. Offered' = [Offered EXCEPT ![c] = [state |-> w.state, ver |-> w.ver]]
    BY <2>1, <2>2, MaestroOfferedAt
  <2>4. QED
    BY <2>1, <2>3
<1>4. Offered' = [Offered EXCEPT ![c].state = "deleting"]
  BY <1>2, <1>3 DEF Offered
<1>5. UNCHANGED <<Asked, present, spoke>>
  BY DEF Asked
<1>6. Asked.ending /\ Offered[c].state = "live"
  BY <1>2 DEF Asked
<1>7. Plan!Withdraw(c)
  BY <1>4, <1>5, <1>6, Zenon DEF Plan!Withdraw, Asked, Offered
<1>8. QED
  BY <1>7, Zenon DEF PlanStep, Plan!Next

\* The agent runs what it is offered.
LEMMA MaestroPlanRun ==
  ASSUME TypeOK, NEW c \in Clusters, spoke' = [spoke EXCEPT ![c] = works[c].ver],
         works[c].state = "live", spoke[c] <= works[c].ver, UNCHANGED <<hub, present, works>>
  PROVE  PlanStep
<1>1. Offered[c] = [state |-> works[c].state, ver |-> works[c].ver]
  BY DEF Offered
<1>2. spoke' = [spoke EXCEPT ![c] = Offered[c].ver]
  BY <1>1
<1>3. UNCHANGED <<Asked, present, Offered>>
  BY DEF Asked, Offered
<1>4. Offered[c].state = "live" /\ spoke[c] <= Offered[c].ver
  BY <1>1
<1>5. Plan!Run(c)
  BY <1>2, <1>3, <1>4, Zenon DEF Plan!Run, Asked, Offered
<1>6. QED
  BY <1>5, Zenon DEF PlanStep, Plan!Next

\* It removes what a ManifestWork that is being deleted brought.
LEMMA MaestroPlanRemove ==
  ASSUME TypeOK, NEW c \in Clusters, works' = [works EXCEPT ![c] = NoWork],
         spoke' = [spoke EXCEPT ![c] = 0],
         works[c].state = "deleting", UNCHANGED <<hub, present>>
  PROVE  PlanStep
<1>1. Offered[c].state = "deleting"
  BY DEF Offered
<1>2. Offered' = [Offered EXCEPT ![c] = Plan!NoOffer]
  BY MaestroOfferedAt, MaestroRecords DEF NoWork, Plan!NoOffer
<1>3. UNCHANGED <<Asked, present>>
  BY DEF Asked
<1>4. Plan!Remove(c)
  BY <1>1, <1>2, <1>3, Zenon DEF Plan!Remove, Asked, Offered
<1>5. QED
  BY <1>4, Zenon DEF PlanStep, Plan!Next

\* A cluster is detached; Maestro keeps its ManifestWork.
LEMMA MaestroPlanDetach ==
  ASSUME TypeOK, NEW c \in Clusters,
         c \in present, present' = present \ {c}, UNCHANGED <<hub, works, spoke>>
  PROVE  PlanStep
<1>1. UNCHANGED <<Asked, Offered, spoke>>
  BY DEF Asked, Offered
<1>2. Plan!Detach(c)
  BY <1>1, Zenon DEF Plan!Detach, Asked, Offered
<1>3. QED
  BY <1>2, Zenon DEF PlanStep, Plan!Next

\* Two fields of what Rollout sees of the Application.
LEMMA MaestroAskedFields ==
  ASSUME NEW x, NEW y
  PROVE  /\ [Asked EXCEPT !.exists = x, !.ending = y]
              = [exists |-> x, ending |-> y, held |-> hub.finalizer,
                   cluster |-> hub.cluster, ver |-> hub.ver]
         /\ [Asked EXCEPT !.exists = x, !.held = y]
              = [exists |-> x, ending |-> hub.deleting, held |-> y,
                   cluster |-> hub.cluster, ver |-> hub.ver]
<1>1. [Asked EXCEPT !.exists = x, !.ending = y]
      = [exists |-> x, ending |-> y, held |-> hub.finalizer,
           cluster |-> hub.cluster, ver |-> hub.ver]
  <2>1. PICK b : b = [Asked EXCEPT !.exists = x]
    OBVIOUS
  <2>2. b = [exists |-> x, ending |-> hub.deleting, held |-> hub.finalizer,
           cluster |-> hub.cluster, ver |-> hub.ver]
    BY <2>1 DEF Asked
  <2>3. [b EXCEPT !.ending = y] = [exists |-> x, ending |-> y, held |-> hub.finalizer,
           cluster |-> hub.cluster, ver |-> hub.ver]
    BY <2>2
  <2>4. [Asked EXCEPT !.exists = x, !.ending = y] = [b EXCEPT !.ending = y]
    BY <2>1, Zenon
  <2>5. QED
    BY <2>3, <2>4
<1>2. [Asked EXCEPT !.exists = x, !.held = y]
      = [exists |-> x, ending |-> hub.deleting, held |-> y,
           cluster |-> hub.cluster, ver |-> hub.ver]
  <2>1. PICK b : b = [Asked EXCEPT !.exists = x]
    OBVIOUS
  <2>2. b = [exists |-> x, ending |-> hub.deleting, held |-> hub.finalizer,
           cluster |-> hub.cluster, ver |-> hub.ver]
    BY <2>1 DEF Asked
  <2>3. [b EXCEPT !.held = y] = [exists |-> x, ending |-> hub.deleting, held |-> y,
           cluster |-> hub.cluster, ver |-> hub.ver]
    BY <2>2
  <2>4. [Asked EXCEPT !.exists = x, !.held = y] = [b EXCEPT !.held = y]
    BY <2>1, Zenon
  <2>5. QED
    BY <2>3, <2>4
<1>3. QED
  BY <1>1, <1>2

\* An Application with another version and another cluster has only those two fields changed.
LEMMA MaestroAskedMoves ==
  ASSUME NEW r, r = [exists |-> hub.exists, ending |-> hub.deleting, held |-> hub.finalizer,
                     cluster |-> r.cluster, ver |-> r.ver]
  PROVE  r = [Asked EXCEPT !.ver = r.ver, !.cluster = r.cluster]
<1>1. PICK v, c : v = r.ver /\ c = r.cluster
  OBVIOUS
<1>2. r = [exists |-> hub.exists, ending |-> hub.deleting, held |-> hub.finalizer,
           cluster |-> c, ver |-> v]
  BY <1>1, Zenon
<1>3. PICK b : b = [Asked EXCEPT !.ver = v]
  OBVIOUS
<1>4. b = [exists |-> hub.exists, ending |-> hub.deleting, held |-> hub.finalizer,
           cluster |-> hub.cluster, ver |-> v]
  BY <1>3 DEF Asked
<1>5. [b EXCEPT !.cluster = c] = r
  BY <1>2, <1>4
<1>6. [Asked EXCEPT !.ver = v, !.cluster = c] = [b EXCEPT !.cluster = c]
  BY <1>3, Zenon
<1>7. r = [Asked EXCEPT !.ver = v, !.cluster = c]
  BY <1>5, <1>6, Zenon
<1>8. QED
  BY <1>1, <1>7, Zenon

\* What it sees of the Application.
LEMMA MaestroPlanAsk ==
  ASSUME TypeOK, hub.exists, hub' \in Application, hub.ver <= hub'.ver,
         hub'.exists = hub.exists, hub'.deleting = hub.deleting, hub'.finalizer = hub.finalizer,
         UNCHANGED <<present, works, spoke>>
  PROVE  PlanStep
<1>1. UNCHANGED <<present, Offered, spoke>>
  BY DEF Offered
<1>2. /\ Asked.exists /\ Asked'.ver >= Asked.ver /\ Asked'.cluster \in Clusters
      /\ Asked' = [Asked EXCEPT !.ver = Asked'.ver, !.cluster = Asked'.cluster]
  <2>1. hub.ver \in Nat /\ hub'.ver \in Nat /\ hub'.cluster \in Clusters
    BY DEF TypeOK, Application
  <2>2. Asked' = [exists |-> hub.exists, ending |-> hub.deleting, held |-> hub.finalizer,
                  cluster |-> hub'.cluster, ver |-> hub'.ver]
    BY DEF Asked
  <2>3. Asked'.ver = hub'.ver /\ Asked'.cluster = hub'.cluster
    BY DEF Asked
  <2>4. PICK r : r = Asked'
    OBVIOUS
  <2>5. r = [Asked EXCEPT !.ver = r.ver, !.cluster = r.cluster]
    <3>1. r = [exists |-> hub.exists, ending |-> hub.deleting, held |-> hub.finalizer,
               cluster |-> r.cluster, ver |-> r.ver]
      BY <2>2, <2>3, <2>4, Zenon
    <3>2. QED
      BY <3>1, MaestroAskedMoves, Zenon
  <2>6. Asked.exists /\ Asked.ver = hub.ver
    BY DEF Asked
  <2>7. QED
    BY <2>1, <2>3, <2>4, <2>5, <2>6, Zenon
<1>3. Plan!Ask
  BY <1>1, <1>2, Zenon DEF Plan!Ask, Asked, Offered
<1>4. QED
  BY <1>3, Zenon DEF PlanStep, Plan!Next

\* Its deletion.
LEMMA MaestroPlanEnd ==
  ASSUME TypeOK, hub.exists, ~hub.deleting,
         hub' = [hub EXCEPT !.exists = hub.finalizer, !.deleting = TRUE],
         UNCHANGED <<present, works, spoke>>
  PROVE  PlanStep
<1>1. UNCHANGED <<present, Offered, spoke>>
  BY DEF Offered
<1>2. /\ Asked.exists /\ ~Asked.ending
      /\ Asked' = [Asked EXCEPT !.exists = Asked.held, !.ending = TRUE]
  <2>1. /\ hub'.exists = hub.finalizer /\ hub'.deleting = TRUE /\ hub'.finalizer = hub.finalizer
        /\ hub'.cluster = hub.cluster /\ hub'.ver = hub.ver
    BY DEF Application, TypeOK
  <2>2. Asked' = [exists |-> hub.finalizer, ending |-> TRUE, held |-> hub.finalizer,
                  cluster |-> hub.cluster, ver |-> hub.ver]
    BY <2>1, Zenon DEF Asked
  <2>3. [Asked EXCEPT !.exists = hub.finalizer, !.ending = TRUE] = Asked'
    BY <2>2, MaestroAskedFields, Zenon
  <2>4. Asked.held = hub.finalizer /\ Asked.exists /\ ~Asked.ending
    BY DEF Asked
  <2>5. QED
    BY <2>3, <2>4, Zenon
<1>3. Plan!End
  BY <1>1, <1>2, Zenon DEF Plan!End, Asked, Offered
<1>4. QED
  BY <1>3, Zenon DEF PlanStep, Plan!Next

\* And its end.
LEMMA MaestroPlanLetGo ==
  ASSUME TypeOK, hub.exists, hub.deleting, works[hub.cluster].state # "live",
         hub' = [hub EXCEPT !.finalizer = FALSE, !.exists = FALSE],
         UNCHANGED <<present, works, spoke>>
  PROVE  PlanStep
<1>1. UNCHANGED <<present, Offered, spoke>>
  BY DEF Offered
<1>2. /\ Asked.exists /\ Asked.ending
      /\ Asked' = [Asked EXCEPT !.exists = FALSE, !.held = FALSE]
  <2>1. /\ hub'.exists = FALSE /\ hub'.finalizer = FALSE /\ hub'.deleting = hub.deleting
        /\ hub'.cluster = hub.cluster /\ hub'.ver = hub.ver
    BY DEF Application, TypeOK
  <2>2. Asked' = [exists |-> FALSE, ending |-> hub.deleting, held |-> FALSE,
                  cluster |-> hub.cluster, ver |-> hub.ver]
    BY <2>1, Zenon DEF Asked
  <2>3. [Asked EXCEPT !.exists = FALSE, !.held = FALSE] = Asked'
    BY <2>2, MaestroAskedFields, Zenon
  <2>4. Asked.exists /\ Asked.ending
    BY DEF Asked
  <2>5. QED
    BY <2>3, <2>4, Zenon
<1>3. Offered[Asked.cluster].state # "live"
  BY DEF Asked, Offered, Application, TypeOK
<1>4. Plan!LetGo
  BY <1>1, <1>2, <1>3, Zenon DEF Plan!LetGo, Asked, Offered
<1>5. QED
  BY <1>4, Zenon DEF PlanStep, Plan!Next

\* What a step does to the Application: a user edits or deletes it, a controller writes its
\* operation or its status, or the finalizer is removed.
LEMMA MaestroHubEffect ==
  ASSUME MaestroInv, [Next]_vars, hub.ver <= changes + 1
  PROVE  /\ hub.ver <= hub'.ver /\ hub'.ver <= changes' + 1 /\ (hub.deleting => hub'.deleting)
         /\ \/ UNCHANGED hub
            \/ /\ hub.exists /\ UNCHANGED <<present, works, spoke>>
               /\ \/ /\ hub'.exists = hub.exists /\ hub'.deleting = hub.deleting
                     /\ hub'.finalizer = hub.finalizer
                  \/ /\ ~hub.deleting
                     /\ hub' = [hub EXCEPT !.exists = hub.finalizer, !.deleting = TRUE]
                  \/ /\ \E p \in Pods : pc[p] = "finalize" /\ app[p] = hub
                     /\ hub' = [hub EXCEPT !.finalizer = FALSE, !.exists = FALSE]
<1>0. /\ TypeOK /\ hub \in Application /\ hub.ver \in Nat /\ changes \in Nat /\ aStatus \in Nat
  BY DEF MaestroInv, TypeOK, Application
<1>1. changes' = changes \/ changes' = changes + 1
  <2>1. CASE \E p \in Pods : Reconcile(p)
    BY <2>1, Zenon DEF Reconcile, Take, GetApplication, IsLocalCluster, CheckCluster, GetWork,
         PutWork, ClearOperation, FindWork, DeleteWork, Finalize, Commit, Succeed, Fault, bounds
  <2>2. CASE \E p \in Pods : Start(p) \/ Stop(p)
    BY <2>2, Zenon DEF Start, Stop, Succeed, Crash, bounds
  <2>3. QED
    BY <2>1, <2>2, Zenon DEF Next, EditApplication, DeleteApplication, DetachCluster, Change, Agent,
       Apply, Report, Retire, AgentUnchanged, Aggregate, HouseKeeping, ListWorks, GetHubApplication,
       UpdateArgoCDAppStatus, EndCycle, Restart, Crash, Succeed, Fault, bounds, vars
<1>2. CASE UNCHANGED hub
  BY <1>0, <1>1, <1>2
<1>3. hub' # hub => UNCHANGED <<present, works, spoke>>
  <2>1. EditApplication \/ DeleteApplication => UNCHANGED <<present, works, spoke>>
    BY Zenon DEF EditApplication, DeleteApplication, clusterVars
  <2>2. QED
    BY <1>0, <2>1, MaestroWorkEffect, Zenon DEF DetachCluster, Apply, Report, Retire, AgentUnchanged
<1>4. CASE hub' # hub /\ EditApplication
  <2>1. hub.exists /\ changes' = changes + 1
    BY <1>4, Zenon DEF EditApplication, Change
  <2>2. PICK b : /\ b = hub'
                 /\ \/ b = [hub EXCEPT !.ver = changes' + 1, !.inCluster = FALSE]
                    \/ b = [hub EXCEPT !.op = changes']
                    \/ \E c \in Clusters : b = [hub EXCEPT !.cluster = c]
    BY <1>4, Zenon DEF EditApplication, WriteHub
  <2>3. /\ b.exists = hub.exists /\ b.deleting = hub.deleting
        /\ b.finalizer = hub.finalizer /\ (b.ver = hub.ver \/ b.ver = changes' + 1)
    BY <1>0, <2>2 DEF Application
  <2>4. hub.ver <= b.ver /\ b.ver <= changes' + 1
    BY <1>0, <2>1, <2>3
  <2>5. QED
    BY <1>3, <1>4, <2>1, <2>2, <2>3, <2>4, Zenon
<1>5. CASE hub' # hub /\ DeleteApplication
  <2>1. /\ hub.exists /\ ~hub.deleting
        /\ hub' = [hub EXCEPT !.exists = hub.finalizer, !.deleting = TRUE]
    BY <1>5, Zenon DEF DeleteApplication, WriteHub
  <2>2. hub'.ver = hub.ver
    BY <1>0, <2>1 DEF Application
  <2>3. hub.ver <= hub'.ver /\ hub'.ver <= changes' + 1
    BY <1>0, <1>1, <2>2
  <2>4. QED
    BY <1>3, <1>5, <2>1, <2>3, Zenon
<1>6. ASSUME hub' # hub, NEW p \in Pods, pc[p] = "finalize", app[p] = hub, hub.exists,
             WriteHub([hub EXCEPT !.finalizer = FALSE, !.exists = FALSE])
      PROVE  /\ hub.ver <= hub'.ver /\ hub'.ver <= changes' + 1 /\ (hub.deleting => hub'.deleting)
             /\ hub' = [hub EXCEPT !.finalizer = FALSE, !.exists = FALSE]
  <2>1. hub' = [hub EXCEPT !.finalizer = FALSE, !.exists = FALSE]
    BY <1>6, Zenon DEF WriteHub
  <2>2. hub'.ver = hub.ver /\ hub'.deleting = hub.deleting
    BY <1>0, <2>1 DEF Application
  <2>3. hub.ver <= hub'.ver /\ hub'.ver <= changes' + 1
    BY <1>0, <1>1, <2>2
  <2>4. QED
    BY <2>1, <2>2, <2>3, Zenon
<1>7. ASSUME \/ WriteHub([hub EXCEPT !.op = 0, !.inCluster = TRUE])
             \/ WriteHub([hub EXCEPT !.status = aStatus])
      PROVE  /\ hub.ver <= hub'.ver /\ hub'.ver <= changes' + 1 /\ (hub.deleting => hub'.deleting)
             /\ hub'.exists = hub.exists /\ hub'.deleting = hub.deleting
             /\ hub'.finalizer = hub.finalizer
  <2>1. PICK b : /\ b = hub'
                 /\ \/ b = [hub EXCEPT !.op = 0, !.inCluster = TRUE]
                    \/ b = [hub EXCEPT !.status = aStatus]
    BY <1>7, Zenon DEF WriteHub
  <2>2. /\ b.exists = hub.exists /\ b.deleting = hub.deleting
        /\ b.finalizer = hub.finalizer /\ b.ver = hub.ver
    <3>1. CASE b = [hub EXCEPT !.op = 0, !.inCluster = TRUE]
      BY <1>0, <3>1 DEF Application
    <3>2. CASE b = [hub EXCEPT !.status = aStatus]
      BY <1>0, <3>2 DEF Application
    <3>3. QED
      BY <2>1, <3>1, <3>2, Zenon
  <2>3. hub.ver <= b.ver /\ b.ver <= changes' + 1
    BY <1>0, <1>1, <2>2
  <2>4. QED
    BY <2>1, <2>2, <2>3, Zenon
<1>8. QED
  BY <1>2, <1>3, <1>4, <1>5, <1>6, <1>7, MaestroHubChange, Zenon

\* Specs go down the line in order: what a cluster runs is no newer than its ManifestWork, and
\* that no newer than the Application.
InOrder == /\ hub.ver <= changes + 1
           /\ \A c \in Clusters : works[c].ver <= hub.ver /\ spoke[c] <= works[c].ver

\* What a pod has read is no newer than the hub, and, until it writes, no older than any
\* ManifestWork; and it deletes for an Application that is being deleted only.
Reading ==
  \A p \in Pods :
    /\ app[p].ver <= hub.ver /\ (app[p].deleting => hub.deleting)
    /\ pc[p] \in Writing => \A c \in Clusters : works[c].ver <= app[p].ver
    /\ pc[p] \in Removing => app[p].deleting

\* A step keeps what a pod has read in order, if no other pod writes.
LEMMA MaestroReadingStep ==
  ASSUME MaestroInv, OnePod, InOrder, Reading, [Next]_vars
  PROVE  Reading'
<1> SUFFICES ASSUME NEW p \in Pods
             PROVE  /\ app'[p].ver <= hub'.ver /\ (app'[p].deleting => hub'.deleting)
                    /\ pc'[p] \in Writing => \A c \in Clusters : works'[c].ver <= app'[p].ver
                    /\ pc'[p] \in Removing => app'[p].deleting
  BY DEF Reading
<1>0. /\ TypeOK /\ hub.ver \in Nat /\ hub'.ver \in Nat /\ app[p].ver \in Nat
      /\ hub.ver <= hub'.ver /\ (hub.deleting => hub'.deleting)
  <2>1. TypeOK /\ TypeOK'
    BY MaestroTypeStep, Zenon DEF MaestroInv
  <2>2. hub.ver <= hub'.ver /\ (hub.deleting => hub'.deleting)
    BY MaestroHubEffect DEF InOrder
  <2>3. QED
    BY <2>1, <2>2 DEF TypeOK, Application
<1>1. ASSUME app'[p] = app[p], pc'[p] \in Writing => pc[p] \in Writing,
             pc'[p] \in Removing => pc[p] \in Removing \/ app[p].deleting
      PROVE  /\ app'[p].ver <= hub'.ver /\ (app'[p].deleting => hub'.deleting)
             /\ pc'[p] \in Writing => \A c \in Clusters : works'[c].ver <= app'[p].ver
             /\ pc'[p] \in Removing => app'[p].deleting
  <2>1. app'[p].ver <= hub'.ver /\ (app'[p].deleting => hub'.deleting)
    BY <1>0, <1>1 DEF Reading
  <2>2. ASSUME pc'[p] \in Writing, NEW c \in Clusters
        PROVE  works'[c].ver <= app'[p].ver
    <3>1. pc[p] # "down" /\ ~(pc[p] = "write" /\ pc'[p] \in {"idle", "clear"})
      BY <1>1, <2>2 DEF Writing
    <3>2. works'[c].ver \in {0, works[c].ver}
      BY <1>0, <3>1, MaestroAlone, MaestroRenewed
    <3>3. works[c].ver <= app[p].ver /\ works[c].ver \in Nat
      BY <1>0, <1>1, <2>2 DEF Reading, TypeOK, Work
    <3>4. QED
      BY <1>0, <1>1, <3>2, <3>3
  <2>3. pc'[p] \in Removing => app'[p].deleting
    BY <1>1 DEF Reading
  <2>4. QED
    BY <2>1, <2>2, <2>3
<1>2. ASSUME app'[p] = hub, UNCHANGED <<hub, works>>, pc'[p] = "local"
      PROVE  /\ app'[p].ver <= hub'.ver /\ (app'[p].deleting => hub'.deleting)
             /\ pc'[p] \in Writing => \A c \in Clusters : works'[c].ver <= app'[p].ver
             /\ pc'[p] \in Removing => app'[p].deleting
  BY <1>0, <1>2 DEF InOrder, Removing
<1>3. ASSUME app'[p] = NoApplication, pc'[p] \in {"down", "idle"}
      PROVE  /\ app'[p].ver <= hub'.ver /\ (app'[p].deleting => hub'.deleting)
             /\ pc'[p] \in Writing => \A c \in Clusters : works'[c].ver <= app'[p].ver
             /\ pc'[p] \in Removing => app'[p].deleting
  <2>1. app'[p].ver = 0 /\ ~app'[p].deleting
    BY <1>3 DEF NoApplication
  <2>2. QED
    BY <1>0, <1>3, <2>1 DEF Writing, Removing
<1>4. QED
  BY <1>0, <1>1, <1>2, <1>3, MaestroReadFrom, Zenon

\* What PutWork writes is what there was, or the spec the pod has read, in order.
LEMMA MaestroGeneratedInOrder ==
  ASSUME TypeOK, Reading, NEW p \in Pods, pc[p] = "write",
         NEW c \in Clusters, c = app[p].cluster, NEW w, w = Generated(p)
  PROVE  /\ w \in Work
         /\ \/ w = works[c]
            \/ /\ works[c].ver <= w.ver /\ w.ver <= hub.ver
               /\ \/ works[c].state = "none" /\ w.state = "live"
                  \/ works[c].state # "none" /\ w.state = works[c].state
<1>1. works[c] \in Work /\ app[p].ver \in Nat /\ app[p].op \in Nat
  BY DEF TypeOK, Application
<1>2. works[c].ver <= app[p].ver /\ app[p].ver <= hub.ver
  BY DEF Reading, Writing
<1>3. \/ w = works[c]
      \/ w = [works[c] EXCEPT !.state = IF @ = "none" THEN "live" ELSE @,
                              !.ver = app[p].ver, !.op = app[p].op]
  BY DEF Generated
<1>4. CASE w = [works[c] EXCEPT !.state = IF @ = "none" THEN "live" ELSE @,
                                !.ver = app[p].ver, !.op = app[p].op]
  <2>1. /\ w \in Work /\ w.ver = app[p].ver
        /\ \/ works[c].state = "none" /\ w.state = "live"
           \/ works[c].state # "none" /\ w.state = works[c].state
    BY <1>1, <1>4 DEF Work
  <2>2. QED
    BY <1>2, <2>1, Zenon
<1>5. QED
  BY <1>1, <1>3, <1>4, Zenon

\* A step keeps the order.
LEMMA MaestroInOrderStep ==
  ASSUME MaestroInv, InOrder, Reading, [Next]_vars
  PROVE  InOrder'
<1>0. /\ TypeOK /\ hub.ver <= hub'.ver /\ hub'.ver <= changes' + 1
      /\ hub.ver \in Nat /\ hub'.ver \in Nat
  <2>1. TypeOK /\ TypeOK'
    BY MaestroTypeStep, Zenon DEF MaestroInv
  <2>2. QED
    BY <2>1, MaestroHubEffect DEF TypeOK, Application, InOrder
<1>1. \A c \in Clusters : works[c] \in Work /\ works[c].ver \in Nat /\ spoke[c] \in Nat
  BY <1>0 DEF TypeOK, Work
<1>2. CASE UNCHANGED <<works, spoke>>
  BY <1>0, <1>1, <1>2 DEF InOrder
<1>3. ASSUME NEW c \in Clusters, Apply(c) PROVE InOrder'
  <2>1. spoke' = [spoke EXCEPT ![c] = works[c].ver] /\ UNCHANGED works
    BY <1>3, Zenon DEF Apply
  <2>2. \A d \in Clusters : spoke'[d] = IF d = c THEN works[c].ver ELSE spoke[d]
    BY <1>0, <2>1 DEF TypeOK
  <2>3. QED
    BY <1>0, <1>1, <2>1, <2>2 DEF InOrder
<1>4. ASSUME NEW c \in Clusters, NEW w \in Work, WriteWork(c, w), UNCHANGED spoke,
             works[c].ver <= w.ver, w.ver <= hub.ver
      PROVE  InOrder'
  <2>1. \A d \in Clusters : works'[d].ver = IF d = c THEN w.ver ELSE works[d].ver
    BY <1>0, <1>4, MaestroWorkAt
  <2>2. w.ver \in Nat
    BY DEF Work
  <2>3. QED
    BY <1>0, <1>1, <1>4, <2>1, <2>2 DEF InOrder
<1>5. ASSUME NEW c \in Clusters, NEW w \in Work, w.ver = works[c].ver, WriteWork(c, w),
             UNCHANGED spoke
      PROVE  InOrder'
  <2>1. works[c].ver <= w.ver /\ w.ver <= hub.ver
    BY <1>1, <1>5 DEF InOrder
  <2>2. QED
    BY <1>4, <1>5, <2>1
<1>6. ASSUME NEW c \in Clusters, Report(c) PROVE InOrder'
  <2>1. WriteWork(c, [works[c] EXCEPT !.feedback = spoke[c]]) /\ UNCHANGED spoke
    BY <1>6, Zenon DEF Report
  <2>2. /\ [works[c] EXCEPT !.feedback = spoke[c]] \in Work
        /\ [works[c] EXCEPT !.feedback = spoke[c]].ver = works[c].ver
    BY <1>1, MaestroDeleted
  <2>3. QED
    BY <1>5, <2>1, <2>2
<1>7. ASSUME NEW c \in Clusters, Retire(c) PROVE InOrder'
  <2>1. WriteWork(c, NoWork) /\ spoke' = [spoke EXCEPT ![c] = 0]
    BY <1>7, Zenon DEF Retire
  <2>2. \A d \in Clusters : /\ works'[d] = IF d = c THEN NoWork ELSE works[d]
                            /\ spoke'[d] = IF d = c THEN 0 ELSE spoke[d]
    BY <1>0, <2>1, MaestroWorkAt DEF TypeOK
  <2>3. QED
    BY <1>0, <1>1, <2>2 DEF InOrder, NoWork
<1>8. ASSUME NEW p \in Pods, pc[p] = "write", UNCHANGED spoke,
             WriteWork(app[p].cluster, Generated(p))
      PROVE  InOrder'
  <2>a. PICK c \in Clusters : c = app[p].cluster
    BY <1>0, MaestroApp
  <2>b. PICK w : w = Generated(p)
    OBVIOUS
  <2>0. c = app[p].cluster /\ w = Generated(p)
    BY <2>a, <2>b
  <2>1. /\ w \in Work
        /\ \/ w = works[c]
           \/ /\ works[c].ver <= w.ver /\ w.ver <= hub.ver
              /\ \/ works[c].state = "none" /\ w.state = "live"
                 \/ works[c].state # "none" /\ w.state = works[c].state
    BY <1>0, <1>8, <2>0, MaestroGeneratedInOrder, ZenonT(60)
  <2>2. WriteWork(c, w)
    BY <1>8, <2>0, Zenon
  <2>3. CASE w = works[c]
    BY <1>5, <1>8, <2>1, <2>2, <2>3
  <2>4. CASE works[c].ver <= w.ver /\ w.ver <= hub.ver
    BY <1>4, <1>8, <2>1, <2>2, <2>4
  <2>5. QED
    BY <2>1, <2>3, <2>4, Zenon
<1>9. ASSUME NEW p \in Pods, UNCHANGED spoke,
             WriteWork(app[p].cluster, [works[app[p].cluster] EXCEPT !.state = "deleting"])
      PROVE  InOrder'
  <2>1. PICK c \in Clusters : c = app[p].cluster
    BY <1>0, MaestroApp
  <2>2. WriteWork(c, [works[c] EXCEPT !.state = "deleting"])
    BY <1>9, <2>1, Zenon
  <2>3. /\ [works[c] EXCEPT !.state = "deleting"] \in Work
        /\ [works[c] EXCEPT !.state = "deleting"].ver = works[c].ver
    BY <1>1, MaestroDeleted
  <2>4. QED
    BY <1>5, <1>9, <2>2, <2>3
<1>10. ASSUME NEW c \in Clusters, DetachCluster(c) PROVE InOrder'
  BY <1>2, <1>10, Zenon DEF DetachCluster
<1>11. QED
  BY <1>0, <1>2, <1>3, <1>6, <1>7, <1>8, <1>9, <1>10, MaestroWorkEffect, Zenon

\* With one pod at a time, specs go down the line from the hub's Application to the ManifestWork
\* and the cluster in order, and what the pod has read is no older than what it overwrites.
THEOREM MaestroInOrder == MaxAlive = 1 /\ Spec => [](InOrder /\ Reading)
<1> SUFFICES ASSUME MaxAlive = 1 PROVE Spec => [](InOrder /\ Reading)
  OBVIOUS
<1>1. Init => InOrder /\ Reading
  <2> SUFFICES ASSUME Init PROVE InOrder /\ Reading
    OBVIOUS
  <2>1. hub.ver = 1 /\ changes = 0 /\ \A c \in Clusters : works[c].ver = 0 /\ spoke[c] = 0
    BY DEF Init, NoWork
  <2>2. \A p \in Pods : app[p].ver = 0 /\ app[p].deleting = FALSE /\ pc[p] = "down"
    BY DEF Init, NoApplication
  <2>3. QED
    BY <2>1, <2>2 DEF InOrder, Reading, Writing, Removing
<1>2. MaestroInv /\ OnePod /\ InOrder /\ Reading /\ [Next]_vars => (InOrder /\ Reading)'
  BY MaestroInOrderStep, MaestroReadingStep, Zenon
<1>3. QED
  BY <1>1, <1>2, MaestroInvariant, MaestroOnePodInvariant, PTL DEF Spec

\* A step of the Application is one that Rollout allows.
LEMMA MaestroPlanHub ==
  ASSUME MaestroInv, DeletedFirst, InOrder, Reading, [Next]_vars, hub' # hub
  PROVE  PlanStep
<1>1. TypeOK /\ hub' \in Application
  <2>1. TypeOK /\ TypeOK'
    BY MaestroTypeStep, Zenon DEF MaestroInv
  <2>2. QED
    BY <2>1 DEF TypeOK
<1>2. ASSUME NEW p \in Pods, pc[p] = "finalize", app[p] = hub
      PROVE  hub.deleting /\ works[hub.cluster].state # "live"
  BY <1>2 DEF DeletedFirst, Reading, Removing
<1>3. hub.ver <= changes + 1
  BY DEF InOrder
<1>4. QED
  BY <1>1, <1>2, <1>3, MaestroHubEffect, MaestroPlanAsk, MaestroPlanEnd, MaestroPlanLetGo

\* So is a step of a ManifestWork or of a cluster.
LEMMA MaestroPlanWorks ==
  ASSUME MaestroInv, InOrder, Reading, [Next]_vars, UNCHANGED hub
  PROVE  PlanStep
<1>0. TypeOK /\ \A d \in Clusters : works[d] \in Work /\ spoke[d] \in Nat
  BY DEF MaestroInv, TypeOK
<1>1. ASSUME UNCHANGED <<present, spoke>>,
             \A d \in Clusters : works'[d].state = works[d].state /\ works'[d].ver = works[d].ver
      PROVE  PlanStep
  <2>1. UNCHANGED <<Asked, present, Offered, spoke>>
    BY <1>1 DEF Asked, Offered
  <2>2. QED
    BY <2>1, Zenon DEF PlanStep
<1>2. CASE UNCHANGED <<present, works, spoke>>
  BY <1>1, <1>2
<1>3. ASSUME NEW c \in Clusters, NEW w, WriteWork(c, w), UNCHANGED <<present, spoke>>,
             w.state = works[c].state, w.ver = works[c].ver
      PROVE  PlanStep
  <2>1. \A d \in Clusters : works'[d].state = works[d].state /\ works'[d].ver = works[d].ver
    BY <1>0, <1>3, MaestroWorkAt
  <2>2. QED
    BY <1>1, <1>3, <2>1
<1>4. ASSUME NEW c \in Clusters, DetachCluster(c) PROVE PlanStep
  BY <1>0, <1>4, MaestroPlanDetach, Zenon DEF DetachCluster
<1>5. ASSUME NEW c \in Clusters, Apply(c) PROVE PlanStep
  <2>1. /\ spoke' = [spoke EXCEPT ![c] = works[c].ver] /\ works[c].state = "live"
        /\ UNCHANGED <<hub, present, works>>
    BY <1>5, Zenon DEF Apply, AgentUnchanged
  <2>2. spoke[c] <= works[c].ver
    BY DEF InOrder
  <2>3. QED
    BY <1>0, <2>1, <2>2, MaestroPlanRun
<1>6. ASSUME NEW c \in Clusters, Report(c) PROVE PlanStep
  <2>1. /\ WriteWork(c, [works[c] EXCEPT !.feedback = spoke[c]])
        /\ UNCHANGED <<present, spoke>>
    BY <1>6, Zenon DEF Report, AgentUnchanged
  <2>2. /\ [works[c] EXCEPT !.feedback = spoke[c]].state = works[c].state
        /\ [works[c] EXCEPT !.feedback = spoke[c]].ver = works[c].ver
    BY <1>0, MaestroDeleted
  <2>3. QED
    BY <1>3, <2>1, <2>2
<1>7. ASSUME NEW c \in Clusters, Retire(c) PROVE PlanStep
  <2>1. /\ works' = [works EXCEPT ![c] = NoWork] /\ spoke' = [spoke EXCEPT ![c] = 0]
        /\ works[c].state = "deleting" /\ UNCHANGED <<hub, present>>
    BY <1>7, Zenon DEF Retire, WriteWork, AgentUnchanged
  <2>2. QED
    BY <1>0, <2>1, MaestroPlanRemove
<1>8. ASSUME NEW p \in Pods, pc[p] = "write", UNCHANGED <<hub, present, spoke>>,
             WriteWork(app[p].cluster, Generated(p))
      PROVE  PlanStep
  <2>a. PICK c \in Clusters : c = app[p].cluster
    BY <1>0, MaestroApp
  <2>b. PICK w : w = Generated(p)
    OBVIOUS
  <2>0. c = app[p].cluster /\ w = Generated(p)
    BY <2>a, <2>b
  <2>1. /\ w \in Work
        /\ \/ w = works[c]
           \/ /\ works[c].ver <= w.ver /\ w.ver <= hub.ver
              /\ \/ works[c].state = "none" /\ w.state = "live"
                 \/ works[c].state # "none" /\ w.state = works[c].state
    BY <1>0, <1>8, <2>0, MaestroGeneratedInOrder, ZenonT(60)
  <2>2. WriteWork(c, w)
    BY <1>8, <2>0, Zenon
  <2>3. CASE w = works[c]
    BY <1>3, <1>8, <2>2, <2>3
  <2>4. CASE /\ works[c].ver <= w.ver /\ w.ver <= hub.ver
             /\ \/ works[c].state = "none" /\ w.state = "live"
                \/ works[c].state # "none" /\ w.state = works[c].state
    <3>1. works' = [works EXCEPT ![c] = w]
      BY <2>2, Zenon DEF WriteWork
    <3>2. QED
      BY <1>0, <1>8, <2>1, <2>4, <3>1, MaestroPlanOffer
  <2>5. QED
    BY <2>1, <2>3, <2>4, Zenon
<1>9. ASSUME NEW p \in Pods, pc[p] = "delete", UNCHANGED <<hub, present, spoke>>,
             works[app[p].cluster].state # "none",
             WriteWork(app[p].cluster, [works[app[p].cluster] EXCEPT !.state = "deleting"])
      PROVE  PlanStep
  <2>1. PICK c \in Clusters : c = app[p].cluster
    BY <1>0, MaestroApp
  <2>2. WriteWork(c, [works[c] EXCEPT !.state = "deleting"]) /\ works[c].state # "none"
    BY <1>9, <2>1, Zenon
  <2>3. hub.deleting
    BY <1>9 DEF Reading, Removing
  <2>4. CASE works[c].state = "live"
    <3>1. works' = [works EXCEPT ![c] = [works[c] EXCEPT !.state = "deleting"]]
      BY <2>2, Zenon DEF WriteWork
    <3>2. QED
      BY <1>0, <1>9, <2>3, <2>4, <3>1, MaestroPlanWithdraw
  <2>5. CASE works[c].state = "deleting"
    <3>1. /\ [works[c] EXCEPT !.state = "deleting"].state = works[c].state
          /\ [works[c] EXCEPT !.state = "deleting"].ver = works[c].ver
      BY <1>0, <2>5, MaestroDeleted
    <3>2. QED
      BY <1>3, <1>9, <2>2, <3>1
  <2>6. QED
    BY <1>0, <2>2, <2>4, <2>5 DEF Work
<1>10. QED
  BY <1>0, <1>2, <1>4, <1>5, <1>6, <1>7, <1>8, <1>9, MaestroWorkEffect, Zenon

\* With one pod at a time both controllers and the agents together implement Rollout: a cluster
\* is offered specs the hub has asked for, never an older one than before; it runs what it was
\* offered; its ManifestWork is deleted only for an Application that is being deleted, which is
\* let go after.  With two pods it is not so: README, section 5.
THEOREM MaestroFollowsPlan == MaxAlive = 1 /\ Spec => FollowsPlan
<1> SUFFICES ASSUME MaxAlive = 1 PROVE Spec => FollowsPlan
  OBVIOUS
<1> DEFINE Inv == MaestroInv /\ DeletedFirst /\ InOrder /\ Reading
<1>1. Init => Plan!Init
  <2> SUFFICES ASSUME Init PROVE Plan!Init
    OBVIOUS
  <2>1. /\ hub.exists = TRUE /\ hub.deleting = FALSE /\ hub.finalizer \in BOOLEAN
        /\ hub.cluster \in Clusters /\ hub.ver \in Nat
    <3>1. hub.exists = TRUE /\ hub.deleting = FALSE /\ hub.cluster \in Clusters /\ hub.ver = 1
      BY DEF Init
    <3>2. hub.finalizer \in Finalizers
      BY DEF Init
    <3>3. hub.finalizer \in BOOLEAN
      BY <3>2, MaestroAssumption, Zenon
    <3>4. QED
      BY <3>1, <3>3
  <2>2. Asked \in [exists : {TRUE}, ending : {FALSE}, held : BOOLEAN, cluster : Clusters, ver : Nat]
    BY <2>1 DEF Asked
  <2>3. /\ present = Clusters /\ Offered = [c \in Clusters |-> Plan!NoOffer]
        /\ spoke = [c \in Clusters |-> 0]
    BY DEF Init, Offered, NoWork, Plan!NoOffer
  <2>4. QED
    BY <2>2, <2>3, Zenon DEF Plan!Init, Asked, Offered
<1>2. Inv /\ [Next]_vars => PlanStep
  BY MaestroPlanHub, MaestroPlanWorks, Zenon
<1>3. Spec => []Inv
  BY MaestroInvariant, MaestroOnePodInvariant, MaestroInOrder, PTL
<1>4. QED
  BY <1>1, <1>2, <1>3, PTL DEF Spec, FollowsPlan, PlanStep, Plan!Spec, Asked, Offered
==============================================================================
