--------------------------- MODULE PullModelProofs ---------------------------
(***************************************************************************)
(* Theorems about PullModel, for every number of pods, clusters, changes,  *)
(* failures and restarts.                                                  *)
(***************************************************************************)
EXTENDS PullModel, FiniteSetTheorems, TLAPS

USE PullAssumption

\* Writing the Application keeps the types of what the write touches.
LEMMA WriteHubType ==
  ASSUME TypeOK, NEW a \in Application, WriteHub(a)
  PROVE  /\ hub' \in Application
         /\ appFresh' \in [Pods -> BOOLEAN]
         /\ dirty' \in [Pods -> BOOLEAN]
<1>1. dirty' \in [Pods -> BOOLEAN]
  <2>1. \A p \in Pods : (dirty[p] \/ (phase[p] = "up" /\ a.labelled)) \in BOOLEAN
    OBVIOUS
  <2>2. QED
    BY <2>1, Zenon DEF WriteHub, Enqueue
<1>2. QED
  BY <1>1 DEF WriteHub, TypeOK

\* So does writing a ManifestWork.
LEMMA WriteWorkType ==
  ASSUME TypeOK, NEW c \in Clusters, NEW w \in Work, WriteWork(c, w)
  PROVE  works' \in [Clusters -> Work] /\ workFresh' \in [Pods -> BOOLEAN]
<1>1. \A p \in Pods : (workFresh[p] /\ app[p].cluster # c) \in BOOLEAN
  OBVIOUS
<1>2. workFresh' \in [Pods -> BOOLEAN]
  BY <1>1, Zenon DEF WriteWork, StaleWork
<1>3. QED
  BY <1>2 DEF WriteWork, TypeOK

\* And marking the versions of a ManifestWork as stale.
LEMMA StaleWorkType ==
  ASSUME NEW c \in Clusters, StaleWork(c)
  PROVE  workFresh' \in [Pods -> BOOLEAN]
<1>1. \A p \in Pods : (workFresh[p] /\ app[p].cluster # c) \in BOOLEAN
  OBVIOUS
<1>2. QED
  BY <1>1, Zenon DEF StaleWork

\* The records the actions build are of their types.
LEMMA RecordValues ==
  /\ NoWork \in Work /\ NoDelivery \in Delivered
  /\ \A w \in Work : SetReadOnly(w) \in Work /\ [w EXCEPT !.state = "deleting"] \in Work
  /\ \A a \in Application :
       /\ \A n \in Nat : [a EXCEPT !.ver = n, !.inCluster = FALSE] \in Application
       /\ \A n \in Nat : [a EXCEPT !.op = n] \in Application
       /\ \A c \in Clusters : [a EXCEPT !.cluster = c] \in Application
       /\ [a EXCEPT !.labelled = ~@] \in Application
       /\ [a EXCEPT !.exists = a.finalizer, !.deleting = TRUE] \in Application
       /\ [a EXCEPT !.op = 0, !.inCluster = TRUE] \in Application
       /\ [a EXCEPT !.exists = FALSE, !.finalizer = FALSE] \in Application
<1>1. /\ NoWork \in Work /\ NoDelivery \in Delivered
      /\ \A w \in Work : SetReadOnly(w) \in Work /\ [w EXCEPT !.state = "deleting"] \in Work
  BY DEF Work, Delivered, NoWork, NoDelivery, SetReadOnly
<1>2. ASSUME NEW a \in Application PROVE [a EXCEPT !.labelled = ~@] \in Application
  <2>1. (~a.labelled) \in BOOLEAN
    OBVIOUS
  <2>2. QED
    BY <2>1 DEF Application
<1>3. ASSUME NEW a \in Application
      PROVE  /\ \A n \in Nat : [a EXCEPT !.ver = n, !.inCluster = FALSE] \in Application
             /\ \A n \in Nat : [a EXCEPT !.op = n] \in Application
             /\ \A c \in Clusters : [a EXCEPT !.cluster = c] \in Application
             /\ [a EXCEPT !.exists = a.finalizer, !.deleting = TRUE] \in Application
             /\ [a EXCEPT !.op = 0, !.inCluster = TRUE] \in Application
             /\ [a EXCEPT !.exists = FALSE, !.finalizer = FALSE] \in Application
  BY DEF Application
<1>4. QED
  BY <1>1, <1>2, <1>3

\* Users and work agents keep the types.
LEMMA OutsideType == TypeOK /\ (Users \/ Agents) => TypeOK'
<1> USE DEF UserUnchanged, podVars, workerVars, bounds
<1>1. ASSUME TypeOK, EditApplication PROVE TypeOK'
  <2>0. hub \in Application
    BY <1>1 DEF TypeOK
  <2>1. changes' = changes + 1 /\ changes' \in Nat
    BY <1>1 DEF EditApplication, Change, TypeOK
  <2>2. PICK a \in Application : WriteHub(a)
    <3>1. CASE WriteHub([hub EXCEPT !.ver = changes' + 1, !.inCluster = FALSE])
      <4>1. changes' + 1 \in Nat
        BY <2>1
      <4>2. [hub EXCEPT !.ver = changes' + 1, !.inCluster = FALSE] \in Application
        BY <2>0, <4>1, RecordValues, Zenon
      <4>3. QED
        BY <3>1, <4>2, Zenon
    <3>2. CASE WriteHub([hub EXCEPT !.op = changes'])
      <4>1. [hub EXCEPT !.op = changes'] \in Application
        BY <2>0, <2>1, RecordValues, Zenon
      <4>2. QED
        BY <3>2, <4>1, Zenon
    <3>3. CASE \E c \in Clusters \ {hub.cluster} : WriteHub([hub EXCEPT !.cluster = c])
      BY <1>1, <3>3, RecordValues DEF TypeOK
    <3>4. CASE WriteHub([hub EXCEPT !.labelled = ~@])
      BY <1>1, <3>4, RecordValues DEF TypeOK
    <3>5. CASE WriteHub(hub)
      BY <1>1, <3>5 DEF TypeOK
    <3>6. QED
      BY <1>1, <3>1, <3>2, <3>3, <3>4, <3>5, Zenon DEF EditApplication
  <2>3. hub' \in Application /\ appFresh' \in [Pods -> BOOLEAN] /\ dirty' \in [Pods -> BOOLEAN]
    BY <1>1, <2>2, WriteHubType
  <2>4. UNCHANGED <<present, bound, config, works, workFresh, frozen, spoke, phase, toSweep,
                    missed, pc, app, workSeen, carried, stops, faults>>
    BY <1>1 DEF EditApplication
  <2>5. QED
    BY <1>1, <2>1, <2>3, <2>4 DEF TypeOK
<1>2. ASSUME TypeOK, DeleteApplication PROVE TypeOK'
  <2>1. [hub EXCEPT !.exists = hub.finalizer, !.deleting = TRUE] \in Application
    BY <1>2, RecordValues DEF TypeOK
  <2>2. WriteHub([hub EXCEPT !.exists = hub.finalizer, !.deleting = TRUE])
    BY <1>2 DEF DeleteApplication
  <2>3. hub' \in Application /\ appFresh' \in [Pods -> BOOLEAN] /\ dirty' \in [Pods -> BOOLEAN]
    BY <1>2, <2>1, <2>2, WriteHubType
  <2>4. QED
    BY <1>2, <2>3 DEF DeleteApplication, Change, TypeOK
<1>3. ASSUME TypeOK, EditConfig PROVE TypeOK'
  <2>1. frozen' = FALSE /\ config' \in {"enabled", "disabled"} /\ changes' = changes + 1
    BY <1>3, Zenon DEF EditConfig, Change
  <2>2. UNCHANGED <<hub, present, bound, works, dirty, appFresh, workFresh, spoke, phase, toSweep,
                    missed, pc, app, workSeen, carried, stops, faults>>
    BY <1>3, Zenon DEF EditConfig
  <2>3. frozen' \in BOOLEAN
    BY <2>1, Zenon
  <2>4. config' \in {"absent", "enabled", "disabled"} /\ changes' \in Nat
    BY <1>3, <2>1 DEF TypeOK
  <2>5. QED
    BY <1>3, <2>2, <2>3, <2>4 DEF TypeOK
<1>4. ASSUME TypeOK, NEW c \in Clusters, EditPlacement(c) PROVE TypeOK'
  BY <1>4 DEF EditPlacement, Change, TypeOK
<1>5. ASSUME TypeOK, NEW c \in Clusters, DetachCluster(c) PROVE TypeOK'
  <2>1. works' \in [Clusters -> Work] /\ workFresh' \in [Pods -> BOOLEAN]
    BY <1>5, RecordValues, WriteWorkType DEF DetachCluster
  <2>2. QED
    BY <1>5, <2>1 DEF DetachCluster, Change, TypeOK
<1>6. ASSUME TypeOK, NEW c \in Clusters, Apply(c) PROVE TypeOK'
  <2>1. workFresh' \in [Pods -> BOOLEAN]
    BY <1>6, StaleWorkType DEF Apply
  <2>2. Delivery(c) \in Delivered
    BY <1>6 DEF TypeOK, Delivery, Delivered, Work
  <2>3. spoke' \in [Clusters -> Delivered]
    BY <1>6, <2>2 DEF Apply, TypeOK
  <2>4. QED
    BY <1>6, <2>1, <2>3 DEF Apply, TypeOK
<1>7. ASSUME TypeOK, NEW c \in Clusters, Retire(c) PROVE TypeOK'
  <2>1. works' \in [Clusters -> Work] /\ workFresh' \in [Pods -> BOOLEAN]
    BY <1>7, RecordValues, WriteWorkType DEF Retire
  <2>2. spoke' \in [Clusters -> Delivered]
    BY <1>7 DEF Retire, TypeOK, Delivered
  <2>3. QED
    BY <1>7, <2>1, <2>2 DEF Retire, TypeOK
<1>8. QED
  BY <1>1, <1>2, <1>3, <1>4, <1>5, <1>6, <1>7 DEF Users, Agents

\* The life of a pod keeps them.
LEMMA LifecycleType ==
  ASSUME TypeOK, NEW p \in Pods, Start(p) \/ Stop(p) \/ Lifecycle(p) PROVE TypeOK'
<1> USE DEF PodUnchanged, workerVars, TypeOK
<1>0. Up(p) => /\ phase' \in [Pods -> {"down", "boot", "list", "sweep", "up"}]
               /\ dirty' \in [Pods -> BOOLEAN]
  <2>1. (hub.exists /\ hub.labelled) \in BOOLEAN
    OBVIOUS
  <2>2. QED
    BY <2>1, Zenon DEF Up
<1>1. CASE Start(p)
  BY <1>1 DEF Start
<1>2. CASE Stop(p)
  BY <1>2 DEF Stop
<1>3. CASE Boot(p)
  <2>1. config' \in {"absent", "enabled", "disabled"} /\ faults' \in Nat
    BY <1>3 DEF Boot, LoadConfig, Succeed, Fault
  <2>2. /\ phase' \in [Pods -> {"down", "boot", "list", "sweep", "up"}]
        /\ dirty' \in [Pods -> BOOLEAN]
    <3>1. CASE Up(p)
      BY <1>0, <3>1, Zenon
    <3>2. CASE phase' = [phase EXCEPT ![p] = "list"] /\ UNCHANGED dirty
      BY <3>2
    <3>3. QED
      BY <1>3, <3>1, <3>2, Zenon DEF Boot
  <2>3. QED
    BY <1>3, <2>1, <2>2 DEF Boot
<1>4. CASE ListWorks(p)
  <2>1. /\ phase' \in [Pods -> {"down", "boot", "list", "sweep", "up"}]
        /\ dirty' \in [Pods -> BOOLEAN]
    <3>1. CASE Up(p)
      BY <1>0, <3>1, Zenon
    <3>2. CASE phase' = [phase EXCEPT ![p] = "sweep"] /\ UNCHANGED dirty
      BY <3>2
    <3>3. QED
      BY <1>4, <3>1, <3>2, Zenon DEF ListWorks
  <2>2. toSweep' \in [Pods -> SUBSET Clusters] /\ missed' \in [Pods -> BOOLEAN]
    <3>1. \/ /\ toSweep' = [toSweep EXCEPT ![p] = {c \in Clusters : works[c].state # "none"}]
             /\ missed' = [missed EXCEPT ![p] = FALSE]
          \/ UNCHANGED <<toSweep, missed>>
      BY <1>4, Zenon DEF ListWorks
    <3>2. missed' \in [Pods -> BOOLEAN]
      BY <3>1, Zenon
    <3>3. {c \in Clusters : works[c].state # "none"} \in SUBSET Clusters
      OBVIOUS
    <3>4. toSweep' \in [Pods -> SUBSET Clusters]
      BY <3>1, <3>3, Zenon
    <3>5. QED
      BY <3>2, <3>4
  <2>3. faults' \in Nat
    BY <1>4 DEF ListWorks, Succeed, Fault
  <2>4. QED
    BY <1>4, <2>1, <2>2, <2>3 DEF ListWorks
<1>5. CASE EndSweep(p)
  <2>1. frozen' \in BOOLEAN
    BY <1>5, Zenon DEF EndSweep
  <2>2. /\ phase' \in [Pods -> {"down", "boot", "list", "sweep", "up"}]
        /\ dirty' \in [Pods -> BOOLEAN]
    BY <1>0, <1>5, Zenon DEF EndSweep
  <2>3. QED
    BY <1>5, <2>1, <2>2 DEF EndSweep
<1>6. ASSUME NEW c \in Clusters, SweepWork(p, c) PROVE TypeOK'
  <2>1. works' \in [Clusters -> Work] /\ workFresh' \in [Pods -> BOOLEAN]
    <3>1. SetReadOnly(works[c]) \in Work
      BY RecordValues, Zenon
    <3>2. CASE WriteWork(c, SetReadOnly(works[c]))
      BY <3>1, <3>2, WriteWorkType
    <3>3. CASE UNCHANGED <<works, workFresh>>
      BY <3>3
    <3>4. QED
      BY <1>6, <3>2, <3>3, Zenon DEF SweepWork
  <2>2. missed' \in [Pods -> BOOLEAN] /\ toSweep' \in [Pods -> SUBSET Clusters]
    BY <1>6 DEF SweepWork
  <2>3. faults' \in Nat
    <3>1. UNCHANGED faults \/ faults' = faults + 1
      BY <1>6, Zenon DEF SweepWork, Succeed, Fault
    <3>2. QED
      BY <3>1
  <2>4. UNCHANGED <<hub, present, bound, spoke, pc, app, workSeen, appFresh, carried, changes,
                    phase, config, dirty, frozen, stops>>
    BY <1>6 DEF SweepWork
  <2>5. QED
    BY <2>1, <2>2, <2>3, <2>4
<1>7. QED
  BY <1>1, <1>2, <1>3, <1>4, <1>5, <1>6, Zenon DEF Lifecycle

\* A flag of one pod, or its label, is set to a value of its type, or nothing changes.
LEMMA FlagType ==
  ASSUME NEW f \in [Pods -> BOOLEAN], NEW f2, NEW p \in Pods, NEW b \in BOOLEAN,
         f2 = f \/ f2 = [f EXCEPT ![p] = b]
  PROVE  f2 \in [Pods -> BOOLEAN]
  BY Zenon

\* So does the worker.
LEMMA ReconcileType == ASSUME TypeOK, NEW p \in Pods, Reconcile(p) PROVE TypeOK'
<1> USE DEF ReadsUnchanged, podVars, workerVars, bounds, Succeed, Fault, Goto, Done, Retry
<1>1. CASE Take(p)
  BY <1>1 DEF Take, TypeOK
<1>2. CASE ReadConfig(p)
  <2>1. /\ pc' = [pc EXCEPT ![p] = "get"] \/ pc' = [pc EXCEPT ![p] = "idle"]
        /\ UNCHANGED faults \/ faults' = faults + 1
        /\ UNCHANGED config \/ config' = "enabled"
    BY <1>2, Zenon DEF ReadConfig, LoadConfig
  <2>2. UNCHANGED <<hub, present, bound, works, spoke, phase, toSweep, missed, carried, frozen,
                    changes, stops, dirty, app, workSeen, appFresh, workFresh>>
    BY <1>2 DEF ReadConfig
  <2>3. QED
    BY <2>1, <2>2 DEF TypeOK
<1>3. CASE GetApplication(p)
  <2>1. /\ app' \in [Pods -> Application] /\ appFresh' \in [Pods -> BOOLEAN]
        /\ dirty' \in [Pods -> BOOLEAN] /\ faults' \in Nat
    <3>1. /\ UNCHANGED app \/ app' = [app EXCEPT ![p] = hub]
          /\ UNCHANGED appFresh \/ appFresh' = [appFresh EXCEPT ![p] = TRUE]
          /\ UNCHANGED dirty \/ dirty' = [dirty EXCEPT ![p] = TRUE]
          /\ UNCHANGED faults \/ faults' = faults + 1
      BY <1>3, Zenon DEF GetApplication
    <3>2. app' \in [Pods -> Application]
      BY <3>1 DEF TypeOK
    <3>3. appFresh' \in [Pods -> BOOLEAN] /\ dirty' \in [Pods -> BOOLEAN]
      BY <3>1, FlagType, Zenon DEF TypeOK
    <3>4. faults' \in Nat
      BY <3>1 DEF TypeOK
    <3>5. QED
      BY <3>2, <3>3, <3>4
  <2>2. \E l \in {"idle", "delete", "check"} : pc' = [pc EXCEPT ![p] = l]
    BY <1>3 DEF GetApplication
  <2>3. UNCHANGED <<hub, present, bound, works, spoke, phase, toSweep, missed, carried, frozen,
                    changes, stops, config, workSeen, workFresh>>
    BY <1>3 DEF GetApplication
  <2>4. QED
    BY <2>1, <2>2, <2>3 DEF TypeOK
<1>4. CASE Check(p)
  <2>1. /\ dirty' \in [Pods -> BOOLEAN] /\ faults' \in Nat
        /\ \E l \in {"idle", "getwork"} : pc' = [pc EXCEPT ![p] = l]
    <3>1. /\ UNCHANGED dirty \/ dirty' = [dirty EXCEPT ![p] = TRUE]
          /\ UNCHANGED faults \/ faults' = faults + 1
          /\ pc' = [pc EXCEPT ![p] = "idle"] \/ pc' = [pc EXCEPT ![p] = "getwork"]
      BY <1>4, Zenon DEF Check
    <3>2. dirty' \in [Pods -> BOOLEAN]
      BY <3>1, FlagType, Zenon DEF TypeOK
    <3>3. faults' \in Nat
      BY <3>1 DEF TypeOK
    <3>4. QED
      BY <3>1, <3>2, <3>3, Zenon
  <2>2. UNCHANGED <<hub, present, bound, works, spoke, phase, toSweep, missed, carried, frozen,
                    changes, stops, config, app, workSeen, appFresh, workFresh>>
    BY <1>4 DEF Check
  <2>3. QED
    BY <2>1, <2>2 DEF TypeOK
<1>5. CASE GetWork(p)
  <2>1. (works[app[p].cluster].state # "none") \in BOOLEAN
    OBVIOUS
  <2>2. workSeen' \in [Pods -> BOOLEAN]
    BY <1>5, <2>1, Zenon DEF GetWork, TypeOK
  <2>3. /\ UNCHANGED workFresh \/ workFresh' = [workFresh EXCEPT ![p] = TRUE]
        /\ UNCHANGED dirty \/ dirty' = [dirty EXCEPT ![p] = TRUE]
        /\ UNCHANGED faults \/ faults' = faults + 1
        /\ pc' = [pc EXCEPT ![p] = "idle"] \/ pc' = [pc EXCEPT ![p] = "write"]
    BY <1>5, Zenon DEF GetWork
  <2>4. UNCHANGED <<hub, present, bound, works, spoke, phase, toSweep, missed, carried, frozen,
                    changes, stops, config, app, appFresh>>
    BY <1>5, Zenon DEF GetWork
  <2>5. workFresh' \in [Pods -> BOOLEAN] /\ dirty' \in [Pods -> BOOLEAN]
    BY <2>3, FlagType, Zenon DEF TypeOK
  <2>6. faults' \in Nat
    BY <2>3 DEF TypeOK
  <2>7. \E l \in {"idle", "write"} : pc' = [pc EXCEPT ![p] = l]
    BY <2>3, Zenon
  <2>8. QED
    BY <2>2, <2>4, <2>5, <2>6, <2>7 DEF TypeOK
<1>6. CASE WriteGenerated(p)
  <2>1. app[p].cluster \in Clusters /\ app[p].op \in Nat /\ Generated(p) \in Work
    BY <1>6 DEF Generated, TypeOK, Application, Work
  <2>2. works' \in [Clusters -> Work] /\ workFresh' \in [Pods -> BOOLEAN]
    <3>1. CASE WriteWork(app[p].cluster, Generated(p))
      BY <2>1, <3>1, WriteWorkType
    <3>2. CASE UNCHANGED <<works, workFresh>>
      BY <3>2 DEF TypeOK
    <3>3. QED
      BY <1>6, <3>1, <3>2, Zenon DEF WriteGenerated
  <2>3. carried' \subseteq Clusters \X Nat
    BY <1>6, <2>1 DEF WriteGenerated, TypeOK
  <2>4. pc' \in [Pods -> {"idle", "load", "get", "check", "getwork", "write", "clear", "delete",
                          "finalize"}]
        /\ dirty' \in [Pods -> BOOLEAN]
    BY <1>6 DEF WriteGenerated, TypeOK
  <2>5. faults' \in Nat
    <3>1. UNCHANGED faults \/ faults' = faults + 1
      BY <1>6, Zenon DEF WriteGenerated
    <3>2. QED
      BY <3>1 DEF TypeOK
  <2>6. UNCHANGED <<hub, present, bound, config, spoke, phase, toSweep, missed, app, workSeen,
                    appFresh, frozen, changes, stops>>
    BY <1>6 DEF WriteGenerated
  <2>7. QED
    BY <2>2, <2>3, <2>4, <2>5, <2>6 DEF TypeOK
<1>7. CASE ClearOperation(p)
  <2>1. [app[p] EXCEPT !.op = 0, !.inCluster = TRUE] \in Application
    BY RecordValues DEF TypeOK
  <2>2. hub' \in Application /\ appFresh' \in [Pods -> BOOLEAN] /\ dirty' \in [Pods -> BOOLEAN]
    <3>1. CASE WriteHub([app[p] EXCEPT !.op = 0, !.inCluster = TRUE])
      BY <2>1, <3>1, WriteHubType
    <3>2. CASE Retry(p) /\ UNCHANGED <<hub, appFresh>>
      BY <3>2 DEF TypeOK
    <3>3. QED
      BY <1>7, <3>1, <3>2, Zenon DEF ClearOperation
  <2>3. faults' \in Nat
    <3>1. UNCHANGED faults \/ faults' = faults + 1
      BY <1>7, Zenon DEF ClearOperation
    <3>2. QED
      BY <3>1 DEF TypeOK
  <2>4. pc' = [pc EXCEPT ![p] = "idle"]
    BY <1>7, Zenon DEF ClearOperation
  <2>5. QED
    BY <1>7, <2>2, <2>3, <2>4 DEF ClearOperation, TypeOK
<1>8. CASE DeleteWork(p)
  <2>1. app[p].cluster \in Clusters
    BY DEF TypeOK, Application
  <2>2. works' \in [Clusters -> Work] /\ workFresh' \in [Pods -> BOOLEAN]
    <3>1. [works[app[p].cluster] EXCEPT !.state = "deleting"] \in Work
      BY <2>1, RecordValues DEF TypeOK
    <3>2. CASE WriteWork(app[p].cluster, [works[app[p].cluster] EXCEPT !.state = "deleting"])
      BY <2>1, <3>1, <3>2, WriteWorkType
    <3>3. CASE UNCHANGED <<works, workFresh>>
      BY <3>3 DEF TypeOK
    <3>4. QED
      BY <1>8, <3>2, <3>3, Zenon DEF DeleteWork
  <2>3. /\ pc' \in [Pods -> {"idle", "load", "get", "check", "getwork", "write", "clear",
                             "delete", "finalize"}]
        /\ dirty' \in [Pods -> BOOLEAN]
    BY <1>8 DEF DeleteWork, AfterDeleteFails, TypeOK
  <2>4. faults' \in Nat
    <3>1. UNCHANGED faults \/ faults' = faults + 1
      BY <1>8, Zenon DEF DeleteWork
    <3>2. QED
      BY <3>1 DEF TypeOK
  <2>5. UNCHANGED <<hub, present, bound, config, spoke, phase, toSweep, missed, app, workSeen,
                    appFresh, carried, frozen, changes, stops>>
    BY <1>8 DEF DeleteWork
  <2>6. QED
    BY <2>2, <2>3, <2>4, <2>5 DEF TypeOK
<1>9. CASE Finalize(p)
  <2>1. [app[p] EXCEPT !.exists = FALSE, !.finalizer = FALSE] \in Application
    BY RecordValues DEF TypeOK
  <2>2. hub' \in Application /\ appFresh' \in [Pods -> BOOLEAN] /\ dirty' \in [Pods -> BOOLEAN]
    <3>1. CASE WriteHub([app[p] EXCEPT !.exists = FALSE, !.finalizer = FALSE])
      BY <2>1, <3>1, WriteHubType
    <3>2. CASE Retry(p) /\ UNCHANGED <<hub, appFresh>>
      BY <3>2 DEF TypeOK
    <3>3. QED
      BY <1>9, <3>1, <3>2, Zenon DEF Finalize
  <2>3. faults' \in Nat
    <3>1. UNCHANGED faults \/ faults' = faults + 1
      BY <1>9, Zenon DEF Finalize
    <3>2. QED
      BY <3>1 DEF TypeOK
  <2>4. pc' = [pc EXCEPT ![p] = "idle"]
    BY <1>9, Zenon DEF Finalize
  <2>5. QED
    BY <1>9, <2>2, <2>3, <2>4 DEF Finalize, TypeOK
<1>10. QED
  BY <1>1, <1>2, <1>3, <1>4, <1>5, <1>6, <1>7, <1>8, <1>9 DEF Reconcile

\* Together.
LEMMA TypeStep == TypeOK /\ [Next]_vars => TypeOK'
<1>1. TypeOK /\ Next => TypeOK'
  BY OutsideType, LifecycleType, ReconcileType, Zenon DEF Next
<1>2. TypeOK /\ UNCHANGED vars => TypeOK'
  BY DEF vars, TypeOK, podVars, workerVars, bounds
<1>3. QED
  BY <1>1, <1>2, Zenon

\* The variables have their types in every reachable state.
THEOREM PullTypeCorrect == Spec => []TypeOK
<1>1. Init => TypeOK
  <2> SUFFICES ASSUME Init PROVE TypeOK
    OBVIOUS
  <2>1. hub \in Application
    <3>1. hub \in [exists : {TRUE}, deleting : {FALSE}, finalizer : Finalizers,
                   labelled : {TRUE}, cluster : Clusters, ver : {1}, op : {0},
                   inCluster : {FALSE}]
      BY Zenon DEF Init
    <3>2. TRUE \in BOOLEAN /\ FALSE \in BOOLEAN /\ Finalizers \subseteq BOOLEAN
      BY PullAssumption, Zenon
    <3>3. /\ hub = [exists |-> hub.exists, deleting |-> hub.deleting, finalizer |-> hub.finalizer,
                   labelled |-> hub.labelled, cluster |-> hub.cluster, ver |-> hub.ver,
                   op |-> hub.op, inCluster |-> hub.inCluster]
          /\ hub.cluster \in Clusters /\ hub.ver \in Nat /\ hub.op \in Nat
      BY <3>1
    <3>4. /\ hub.exists \in {TRUE} /\ hub.deleting \in {FALSE} /\ hub.finalizer \in Finalizers
          /\ hub.labelled \in {TRUE} /\ hub.inCluster \in {FALSE}
      BY <3>1
    <3>5. /\ hub.exists \in BOOLEAN /\ hub.deleting \in BOOLEAN /\ hub.finalizer \in BOOLEAN
          /\ hub.labelled \in BOOLEAN /\ hub.inCluster \in BOOLEAN
      BY <3>2, <3>4, Zenon
    <3>6. QED
      BY <3>3, <3>5 DEF Application
  <2>2. works \in [Clusters -> Work] /\ spoke \in [Clusters -> Delivered]
    BY RecordValues DEF Init
  <2>3. app \in [Pods -> Application]
    BY <2>1 DEF Init
  <2>4. QED
    BY <2>1, <2>2, <2>3 DEF Init, TypeOK
<1>2. QED
  BY <1>1, TypeStep, PTL DEF Spec

\* What optimistic concurrency rests on: as long as its version is current, what a pod
\* has read is what the hub holds; and a pod that is about to clear an operation has put
\* it into a ManifestWork.
IInv ==
  /\ \A p \in Pods : appFresh[p] => app[p] = hub
  /\ \A p \in Pods : pc[p] = "clear" => <<app[p].cluster, app[p].op>> \in carried

\* Both hold of every step, under the types.
LEMMA IInvStep == TypeOK /\ IInv /\ Next => IInv'
<1> SUFFICES ASSUME TypeOK, IInv, Next PROVE IInv'
  OBVIOUS
<1>a. ASSUME NEW a, WriteHub(a), UNCHANGED <<pc, app, carried>> PROVE IInv'
  BY <1>a DEF WriteHub, IInv
<1>b. ASSUME UNCHANGED <<hub, appFresh, pc, app, carried>> PROVE IInv'
  BY <1>b DEF IInv
<1>c. ASSUME NEW p \in Pods, NEW l \in {"idle", "load", "get", "check", "getwork", "write",
                                         "delete", "finalize"},
             pc' = [pc EXCEPT ![p] = l],
             UNCHANGED <<app, carried>>,
             UNCHANGED <<hub, appFresh>> \/ \E a : WriteHub(a)
      PROVE IInv'
  <2>1. \A q \in Pods : pc'[q] = "clear" => pc[q] = "clear"
    BY <1>c DEF TypeOK
  <2>2. \A q \in Pods : pc'[q] = "clear" => <<app'[q].cluster, app'[q].op>> \in carried'
    BY <1>c, <2>1 DEF IInv
  <2>3. \A q \in Pods : appFresh'[q] => app'[q] = hub'
    <3>1. CASE UNCHANGED <<hub, appFresh>>
      BY <1>c, <3>1 DEF IInv
    <3>2. CASE \E a : WriteHub(a)
      BY <3>2 DEF WriteHub
    <3>3. QED
      BY <1>c, <3>1, <3>2
  <2>4. QED
    BY <2>2, <2>3 DEF IInv
<1>1. ASSUME Users PROVE IInv'
  <2>1. CASE EditApplication
    <3>1. (\E a : WriteHub(a)) /\ UNCHANGED <<pc, app, carried>>
      BY <2>1, Zenon DEF EditApplication, UserUnchanged, workerVars
    <3>2. QED
      BY <3>1, <1>a, Zenon
  <2>2. CASE DeleteApplication
    <3>1. (\E a : WriteHub(a)) /\ UNCHANGED <<pc, app, carried>>
      BY <2>2, Zenon DEF DeleteApplication, UserUnchanged, workerVars
    <3>2. QED
      BY <3>1, <1>a, Zenon
  <2>3. CASE EditConfig \/ \E c \in Clusters : EditPlacement(c) \/ DetachCluster(c)
    <3>1. UNCHANGED <<hub, appFresh, pc, app, carried>>
      BY <2>3, Zenon DEF EditConfig, EditPlacement, DetachCluster, UserUnchanged, workerVars
    <3>2. QED
      BY <3>1, <1>b, Zenon
  <2>4. QED
    BY <1>1, <2>1, <2>2, <2>3, Zenon DEF Users
<1>2. ASSUME Agents PROVE IInv'
  BY <1>2, <1>b, Zenon DEF Agents, Apply, Retire, workerVars
<1>3. ASSUME NEW p \in Pods, Start(p) \/ Lifecycle(p) PROVE IInv'
  BY <1>3, <1>b, Zenon DEF Start, Lifecycle, Boot, ListWorks, EndSweep, SweepWork, PodUnchanged,
                           workerVars
<1>4. ASSUME NEW p \in Pods, Stop(p) PROVE IInv'
  BY <1>4, <1>c, Zenon DEF Stop
<1>5. ASSUME NEW p \in Pods, Reconcile(p) PROVE IInv'
  <2> USE DEF ReadsUnchanged, Goto, Done, Retry
  <2>1. CASE Take(p)
    BY <2>1, <1>c, Zenon DEF Take
  <2>2. CASE ReadConfig(p)
    BY <2>2, <1>c, Zenon DEF ReadConfig
  <2>3. CASE GetApplication(p)
    <3>1. CASE UNCHANGED <<app, appFresh>>
      <4>1. pc' = [pc EXCEPT ![p] = "idle"] \/ pc' = [pc EXCEPT ![p] = "delete"]
            \/ pc' = [pc EXCEPT ![p] = "check"]
        BY <2>3, Zenon DEF GetApplication
      <4>2. UNCHANGED <<hub, carried>>
        BY <2>3, Zenon DEF GetApplication
      <4>3. QED
        BY <3>1, <4>1, <4>2, <1>c, Zenon
    <3>2. CASE /\ app' = [app EXCEPT ![p] = hub]
               /\ appFresh' = [appFresh EXCEPT ![p] = TRUE]
               /\ pc' = [pc EXCEPT ![p] = IF hub.deleting THEN "delete" ELSE "check"]
      <4>1. UNCHANGED <<hub, carried>>
        BY <2>3, Zenon DEF GetApplication
      <4>2. \A q \in Pods : pc'[q] = "clear" => q # p /\ pc[q] = "clear"
        BY <3>2 DEF TypeOK
      <4>3. \A q \in Pods : q # p => app'[q] = app[q] /\ appFresh'[q] = appFresh[q]
        BY <3>2 DEF TypeOK
      <4>4. app'[p] = hub'
        BY <3>2, <4>1 DEF TypeOK
      <4>5. QED
        BY <4>1, <4>2, <4>3, <4>4, Zenon DEF IInv
    <3>3. QED
      BY <2>3, <3>1, <3>2, Zenon DEF GetApplication
  <2>4. CASE Check(p)
    BY <2>4, <1>c, Zenon DEF Check
  <2>5. CASE GetWork(p)
    BY <2>5, <1>c, Zenon DEF GetWork
  <2>6. CASE WriteGenerated(p)
    <3>1. UNCHANGED <<hub, app, appFresh>>
      BY <2>6, Zenon DEF WriteGenerated
    <3>2. CASE pc' = [pc EXCEPT ![p] = "idle"] /\ carried \subseteq carried'
      BY <3>1, <3>2 DEF IInv, TypeOK
    <3>3. CASE /\ pc' = [pc EXCEPT ![p] = "clear"] /\ app[p].op # 0
               /\ carried' = carried \cup ({<<app[p].cluster, app[p].op>>} \ (Clusters \X {0}))
      <4>1. <<app[p].cluster, app[p].op>> \in carried'
        BY <3>3
      <4>2. QED
        BY <3>1, <3>3, <4>1 DEF IInv, TypeOK
    <3>4. carried \subseteq carried'
      BY <2>6 DEF WriteGenerated
    <3>5. QED
      BY <2>6, <3>2, <3>3, <3>4, Zenon DEF WriteGenerated
  <2>7. CASE ClearOperation(p)
    BY <2>7, <1>c, Zenon DEF ClearOperation
  <2>8. CASE DeleteWork(p)
    BY <2>8, <1>c, Zenon DEF DeleteWork, AfterDeleteFails
  <2>9. CASE Finalize(p)
    BY <2>9, <1>c, Zenon DEF Finalize
  <2>10. QED
    BY <1>5, <2>1, <2>2, <2>3, <2>4, <2>5, <2>6, <2>7, <2>8, <2>9, Zenon DEF Reconcile
<1>6. QED
  BY <1>1, <1>2, <1>3, <1>4, <1>5, Zenon DEF Next

\* They are invariants of the specification.
THEOREM PullInvariant == Spec => []IInv
<1>1. Init => IInv
  BY DEF Init, IInv
<1>2. TypeOK /\ IInv /\ [Next]_vars => IInv'
  <2>1. IInv /\ UNCHANGED vars => IInv'
    BY DEF vars, IInv, workerVars
  <2>2. QED
    BY <2>1, IInvStep, Zenon
<1>3. QED
  BY <1>1, <1>2, PullTypeCorrect, PTL DEF Spec

\* The controller takes an operation off the hub only once a ManifestWork of the
\* Application's cluster has carried it, for any number of overlapping pods.
THEOREM OperationsAreCarried == Spec => OperationCarried
<1> DEFINE A == hub.op # 0 /\ hub'.op # hub.op /\ UNCHANGED changes
                => <<hub.cluster, hub.op>> \in carried
<1>1. TypeOK /\ IInv /\ [Next]_vars => A
  <2> SUFFICES ASSUME TypeOK, IInv, [Next]_vars, hub'.op # hub.op, UNCHANGED changes
               PROVE  <<hub.cluster, hub.op>> \in carried
    OBVIOUS
  <2>1. hub' # hub
    OBVIOUS
  <2>2. ~Users
    <3>1. Users => changes' = changes + 1
      BY Zenon DEF Users, EditApplication, DeleteApplication, EditConfig, EditPlacement,
                   DetachCluster, Change
    <3>2. QED
      BY <3>1 DEF TypeOK
  <2>3. PICK p \in Pods : ClearOperation(p) \/ Finalize(p)
    BY <2>1, <2>2, Zenon DEF Next, vars, Agents, Apply, Retire, Start, Stop, Lifecycle, Boot,
         ListWorks, EndSweep, SweepWork, PodUnchanged, Reconcile, Take, ReadConfig,
         GetApplication, Check, GetWork, WriteGenerated, DeleteWork, ReadsUnchanged
  <2>4. CASE ClearOperation(p)
    <3>1. appFresh[p] /\ pc[p] = "clear"
      BY <2>1, <2>4, Zenon DEF ClearOperation, Updatable
    <3>2. QED
      BY <3>1 DEF IInv
  <2>5. CASE Finalize(p)
    <3>1. /\ appFresh[p]
          /\ hub' = [app[p] EXCEPT !.exists = FALSE, !.finalizer = FALSE]
      BY <2>1, <2>5, Zenon DEF Finalize, Updatable, WriteHub
    <3>2. app[p] = hub
      BY <3>1 DEF IInv
    <3>3. hub'.op = hub.op
      BY <3>1, <3>2 DEF TypeOK, Application
    <3>4. QED
      BY <3>3
  <2>6. QED
    BY <2>3, <2>4, <2>5
<1>2. QED
  BY <1>1, PullTypeCorrect, PullInvariant, PTL DEF Spec, OperationCarried

-----------------------------------------------------------------------------
(* One pod at a time, as between two rolling restarts. *)

\* The pods that are up, or on their way, are one at most; a worker runs in a pod that is up.
OnePod == /\ \A p, q \in Pods : phase[p] # "down" /\ phase[q] # "down" => p = q
          /\ \A p \in Pods : pc[p] # "idle" => phase[p] = "up"

\* What the life of a pod does to its phase.
LEMMA LifecyclePhases ==
  ASSUME TypeOK, NEW p \in Pods, Lifecycle(p)
  PROVE  /\ UNCHANGED pc /\ phase[p] \in {"boot", "list", "sweep"}
         /\ \A q \in Pods \ {p} : phase'[q] = phase[q]
<1>1. UNCHANGED pc /\ phase[p] \in {"boot", "list", "sweep"}
  BY Zenon DEF Lifecycle, Boot, ListWorks, EndSweep, SweepWork, PodUnchanged, workerVars
<1>2. UNCHANGED phase \/ \E l : phase' = [phase EXCEPT ![p] = l]
  BY Zenon DEF Lifecycle, Boot, ListWorks, EndSweep, SweepWork, Up
<1>3. QED
  BY <1>1, <1>2 DEF TypeOK

\* What a reconcile does to its worker: it goes on to another step of Reconcile.
LEMMA ReconcileSteps ==
  ASSUME TypeOK, NEW p \in Pods, Reconcile(p)
  PROVE  /\ UNCHANGED phase /\ (pc[p] # "idle" \/ phase[p] = "up")
         /\ \A q \in Pods \ {p} : pc'[q] = pc[q] /\ app'[q] = app[q]
<1> USE DEF ReadsUnchanged, podVars, Goto, Done, Retry
<1>1. UNCHANGED phase /\ (pc[p] # "idle" \/ phase[p] = "up")
  <2>1. UNCHANGED phase
    BY Zenon DEF Reconcile, Take, ReadConfig, GetApplication, Check, GetWork, WriteGenerated,
                 ClearOperation, DeleteWork, Finalize
  <2>2. phase[p] = "up" \/ pc[p] \in {"load", "get", "check", "getwork", "write", "clear",
                                      "delete", "finalize"}
    BY Zenon DEF Reconcile, Take, ReadConfig, GetApplication, Check, GetWork, WriteGenerated,
                 ClearOperation, DeleteWork, Finalize
  <2>3. QED
    BY <2>1, <2>2
<1>2. \E l : pc' = [pc EXCEPT ![p] = l]
  BY Zenon DEF Reconcile, Take, ReadConfig, GetApplication, Check, GetWork, WriteGenerated,
               ClearOperation, DeleteWork, AfterDeleteFails, Finalize
<1>3. UNCHANGED app \/ app' = [app EXCEPT ![p] = hub]
  BY Zenon DEF Reconcile, Take, ReadConfig, GetApplication, Check, GetWork, WriteGenerated,
               ClearOperation, DeleteWork, Finalize
<1>4. QED
  BY <1>1, <1>2, <1>3 DEF TypeOK

\* Users and work agents touch no pod.
LEMMA OutsidePods ==
  ASSUME Users \/ Agents
  PROVE  UNCHANGED <<phase, toSweep, missed, pc, app, workSeen, faults>>
BY Zenon DEF Users, EditApplication, DeleteApplication, EditConfig, EditPlacement, DetachCluster,
             Agents, Apply, Retire, UserUnchanged, podVars, workerVars

\* A pod starts only when none is alive.
LEMMA StartsAlone ==
  ASSUME TypeOK, MaxAlive = 1, OnePod, NEW p \in Pods, Start(p)
  PROVE  \A q \in Pods : phase[q] = "down"
<1> SUFFICES ASSUME NEW q \in Pods, phase[q] # "down" PROVE FALSE
  OBVIOUS
<1>1. Alive = {q}
  BY DEF Alive, OnePod
<1>2. Cardinality(Alive) = 1
  BY <1>1, FS_Singleton
<1>3. QED
  BY <1>2 DEF Start

\* Steps keep the pods one.
LEMMA OnePodStep == MaxAlive = 1 /\ TypeOK /\ OnePod /\ [Next]_vars => OnePod'
<1> SUFFICES ASSUME MaxAlive = 1, TypeOK, OnePod, [Next]_vars PROVE OnePod'
  OBVIOUS
<1>1. CASE Users \/ Agents \/ UNCHANGED vars
  <2>1. UNCHANGED <<phase, pc>>
    BY <1>1, OutsidePods, Zenon DEF vars, podVars, workerVars
  <2>2. QED
    BY <2>1 DEF OnePod
<1>2. ASSUME NEW p \in Pods, Start(p) PROVE OnePod'
  <2>1. \A q \in Pods : phase[q] = "down"
    BY <1>2, StartsAlone
  <2>2. phase' = [phase EXCEPT ![p] = "boot"] /\ UNCHANGED pc
    BY <1>2, Zenon DEF Start, PodUnchanged, workerVars
  <2>3. QED
    BY <2>1, <2>2 DEF OnePod, TypeOK
<1>3. ASSUME NEW p \in Pods, Stop(p) PROVE OnePod'
  <2>1. phase' = [phase EXCEPT ![p] = "down"] /\ pc' = [pc EXCEPT ![p] = "idle"]
    BY <1>3, Zenon DEF Stop
  <2>2. QED
    BY <2>1 DEF OnePod, TypeOK
<1>4. ASSUME NEW p \in Pods, Lifecycle(p) PROVE OnePod'
  BY <1>4, LifecyclePhases DEF OnePod
<1>5. ASSUME NEW p \in Pods, Reconcile(p) PROVE OnePod'
  BY <1>5, ReconcileSteps DEF OnePod
<1>6. QED
  BY <1>1, <1>2, <1>3, <1>4, <1>5, Zenon DEF Next

\* A ManifestWork comes to life, or out of ReadOnly, only by a reconcile's write.
LEMMA OnlyWritesRevive ==
  ASSUME TypeOK, [Next]_vars, \A p \in Pods : ~WriteGenerated(p)
  PROVE  \A c \in Clusters : works'[c].state = "live" =>
           works[c].state = "live" /\ (works[c].readOnly => works'[c].readOnly)
<1> DEFINE Calm(w, v) == v.state = "live" => w.state = "live" /\ (w.readOnly => v.readOnly)
<1>1. \/ UNCHANGED works
      \/ \E c \in Clusters : \/ works' = [works EXCEPT ![c] = NoWork]
                             \/ works' = [works EXCEPT ![c] = SetReadOnly(works[c])]
                             \/ works' = [works EXCEPT ![c] = [works[c] EXCEPT !.state = "deleting"]]
  <2>1. CASE Users \/ Agents
    BY <2>1, Zenon DEF Users, EditApplication, DeleteApplication, EditConfig, EditPlacement,
       DetachCluster, Agents, Apply, Retire, WriteWork
  <2>2. ASSUME NEW p \in Pods, Start(p) \/ Stop(p) \/ Lifecycle(p)
        PROVE  UNCHANGED works \/ \E c \in Clusters : works' = [works EXCEPT ![c] = SetReadOnly(works[c])]
    BY <2>2, Zenon DEF Start, Stop, Lifecycle, Boot, ListWorks, EndSweep, SweepWork, WriteWork
  <2>3. ASSUME NEW p \in Pods, Reconcile(p), ~DeleteWork(p) PROVE UNCHANGED works
    BY <2>3, Zenon DEF Reconcile, Take, ReadConfig, GetApplication, Check, GetWork,
       ClearOperation, Finalize, ReadsUnchanged
  <2>4. ASSUME NEW p \in Pods, DeleteWork(p)
        PROVE  \/ UNCHANGED works
               \/ \E c \in Clusters : works' = [works EXCEPT ![c] = [works[c] EXCEPT !.state = "deleting"]]
    <3>1. app[p].cluster \in Clusters
      BY DEF TypeOK, Application
    <3>2. QED
      BY <2>4, <3>1, Zenon DEF DeleteWork, WriteWork
  <2>5. QED
    BY <2>1, <2>2, <2>3, <2>4, Zenon DEF Next, vars
<1>2. \A c \in Clusters : Calm(works[c], works[c])
  OBVIOUS
<1>3. \A c \in Clusters : /\ Calm(works[c], NoWork) /\ Calm(works[c], SetReadOnly(works[c]))
                          /\ Calm(works[c], [works[c] EXCEPT !.state = "deleting"])
  BY DEF TypeOK, Work, NoWork, SetReadOnly
<1>4. \A c \in Clusters : Calm(works[c], works'[c])
  <2> HIDE DEF Calm
  <2>1. ASSUME NEW c \in Clusters, NEW w, works' = [works EXCEPT ![c] = w], Calm(works[c], w)
        PROVE  \A d \in Clusters : Calm(works[d], works'[d])
    BY <1>2, <2>1 DEF TypeOK
  <2>2. QED
    BY <1>1, <1>2, <1>3, <2>1
<1>5. QED
  BY <1>4

\* A pod about to remove the finalizer has seen to the ManifestWork, and nobody revives it.
DeletedFirst == \A p \in Pods : pc[p] = "finalize" => works[app[p].cluster].state # "live"

\* Only the handler of the deletion gets to the finalizer.
LEMMA FinalizeFrom ==
  ASSUME TypeOK, [Next]_vars, NEW p \in Pods, pc'[p] = "finalize"
  PROVE  \/ pc[p] = "finalize" /\ app'[p] = app[p]
         \/ /\ pc[p] = "delete" /\ app'[p] = app[p]
            /\ \/ works'[app[p].cluster].state = "deleting"
               \/ works[app[p].cluster].state # "live" /\ UNCHANGED works
<1>1. CASE Users \/ Agents \/ UNCHANGED vars
  BY <1>1, OutsidePods, Zenon DEF vars, workerVars
<1>2. ASSUME NEW q \in Pods, Start(q) \/ Lifecycle(q) PROVE UNCHANGED <<pc, app>>
  BY <1>2, Zenon DEF Start, Lifecycle, Boot, ListWorks, EndSweep, SweepWork, PodUnchanged, workerVars
<1>3. ASSUME NEW q \in Pods, Stop(q) PROVE pc[p] = "finalize" /\ app'[p] = app[p]
  BY <1>3 DEF Stop, TypeOK
<1>4. ASSUME NEW q \in Pods \ {p}, Reconcile(q) PROVE pc[p] = "finalize" /\ app'[p] = app[p]
  BY <1>4, ReconcileSteps
<1>5. ASSUME Reconcile(p), ~DeleteWork(p) PROVE FALSE
  <2>1. \E l \in {"idle", "load", "get", "check", "getwork", "write", "clear", "delete"} :
          pc' = [pc EXCEPT ![p] = l]
    BY <1>5 DEF Reconcile, Take, ReadConfig, GetApplication, Check, GetWork, WriteGenerated,
       ClearOperation, Finalize, Goto, Done, Retry
  <2>2. QED
    BY <2>1 DEF TypeOK
<1>6. CASE DeleteWork(p)
  <2>1. pc[p] = "delete" /\ UNCHANGED app
    BY <1>6, Zenon DEF DeleteWork
  <2>2. app[p].cluster \in Clusters
    BY DEF TypeOK, Application
  <2>3. \/ works' = [works EXCEPT ![app[p].cluster] = [works[app[p].cluster] EXCEPT !.state = "deleting"]]
        \/ works[app[p].cluster].state # "live" /\ UNCHANGED works
    <3>1. pc' # [pc EXCEPT ![p] = "idle"]
      BY DEF TypeOK
    <3>2. QED
      BY <1>6, <3>1, Zenon DEF DeleteWork, AfterDeleteFails, Retry, Goto, WriteWork
  <2>4. QED
    BY <2>1, <2>2, <2>3 DEF TypeOK, Work
<1>7. QED
  BY <1>1, <1>2, <1>3, <1>4, <1>5, <1>6, Zenon DEF Next

\* Until it removes the finalizer, no other step brings that ManifestWork back: only a write of
\* a reconcile does, and the pod's worker is not at one.
LEMMA DeletedFirstStep == TypeOK /\ OnePod /\ DeletedFirst /\ [Next]_vars => DeletedFirst'
<1> SUFFICES ASSUME TypeOK, OnePod, DeletedFirst, [Next]_vars, NEW p \in Pods, pc'[p] = "finalize"
             PROVE  works'[app'[p].cluster].state # "live"
  BY DEF DeletedFirst
<1>1. CASE pc[p] = "finalize" /\ app'[p] = app[p]
  <2>1. works[app[p].cluster].state # "live" /\ app[p].cluster \in Clusters
    BY <1>1 DEF DeletedFirst, TypeOK, Application
  <2>2. \A q \in Pods : ~WriteGenerated(q)
    <3> SUFFICES ASSUME NEW q \in Pods, WriteGenerated(q) PROVE FALSE
      OBVIOUS
    <3>1. pc[q] = "write"
      BY Zenon DEF WriteGenerated
    <3>2. QED
      BY <1>1, <3>1 DEF OnePod
  <2>3. QED
    BY <1>1, <2>1, <2>2, OnlyWritesRevive
<1>2. CASE /\ pc[p] = "delete" /\ app'[p] = app[p]
           /\ \/ works'[app[p].cluster].state = "deleting"
              \/ works[app[p].cluster].state # "live" /\ UNCHANGED works
  BY <1>2
<1>3. QED
  BY <1>1, <1>2, FinalizeFrom, Zenon

\* What the sweep of a pod has passed is ReadOnly, unless it missed a ManifestWork.
Swept == \A p \in Pods : phase[p] = "sweep" /\ ~missed[p] =>
           \A c \in Clusters : works[c].state = "live" => works[c].readOnly \/ c \in toSweep[p]

\* While no call has failed, a frozen pull model is a disabled one, and the worker of the
\* pod that is up gets no further than to read that.
FrozenIdle == faults = 0 /\ frozen =>
                /\ config = "disabled" /\ FrozenStays
                /\ \A p \in Pods : pc[p] \in {"idle", "load"}

\* A pod sweeps because it has just listed the ManifestWorks, or goes on with the list.
LEMMA SweepFrom ==
  ASSUME TypeOK, [Next]_vars, NEW p \in Pods, phase'[p] = "sweep"
  PROVE  /\ phase[p] \in {"list", "sweep"}
         /\ \/ phase[p] = "sweep" /\ toSweep'[p] = toSweep[p] /\ missed'[p] = missed[p]
            \/ UNCHANGED works /\ toSweep'[p] = {c \in Clusters : works[c].state # "none"}
            \/ phase[p] = "sweep" /\ \E c \in toSweep[p] : SweepWork(p, c)
<1>1. CASE Users \/ Agents \/ UNCHANGED vars
  <2>1. UNCHANGED <<phase, toSweep, missed>>
    BY <1>1, OutsidePods, Zenon DEF vars, podVars
  <2>2. QED
    BY <2>1
<1>2. ASSUME NEW q \in Pods, Start(q) \/ Stop(q)
      PROVE  phase[p] = "sweep" /\ toSweep'[p] = toSweep[p] /\ missed'[p] = missed[p]
  <2>1. UNCHANGED missed
    BY <1>2, Zenon DEF Start, Stop
  <2>2. \E l \in {"boot", "down"} : phase' = [phase EXCEPT ![q] = l]
    BY <1>2, Zenon DEF Start, Stop
  <2>3. UNCHANGED toSweep \/ toSweep' = [toSweep EXCEPT ![q] = {}]
    BY <1>2, Zenon DEF Start, Stop
  <2>4. QED
    BY <2>1, <2>2, <2>3 DEF TypeOK
<1>3. ASSUME NEW q \in Pods, q # p, Lifecycle(q)
      PROVE  phase[p] = "sweep" /\ toSweep'[p] = toSweep[p] /\ missed'[p] = missed[p]
  <2>1. phase[p] = "sweep"
    BY <1>3, LifecyclePhases
  <2>2. UNCHANGED toSweep \/ \E S : toSweep' = [toSweep EXCEPT ![q] = S]
    BY <1>3, Zenon DEF Lifecycle, Boot, ListWorks, EndSweep, SweepWork
  <2>3. UNCHANGED missed \/ \E b : missed' = [missed EXCEPT ![q] = b]
    BY <1>3, Zenon DEF Lifecycle, Boot, ListWorks, EndSweep, SweepWork
  <2>4. QED
    BY <1>3, <2>1, <2>2, <2>3 DEF TypeOK
<1>4. ASSUME NEW q \in Pods, Reconcile(q)
      PROVE  phase[p] = "sweep" /\ toSweep'[p] = toSweep[p] /\ missed'[p] = missed[p]
  <2>1. UNCHANGED <<phase, toSweep, missed>>
    BY <1>4, Zenon DEF Reconcile, Take, ReadConfig, GetApplication, Check, GetWork,
       WriteGenerated, ClearOperation, DeleteWork, Finalize, ReadsUnchanged, podVars
  <2>2. QED
    BY <2>1
<1>5. CASE Boot(p) \/ EndSweep(p)
  <2>1. \E l \in {"up", "list"} : phase' = [phase EXCEPT ![p] = l]
    BY <1>5, Zenon DEF Boot, EndSweep, Up
  <2>2. QED
    BY <2>1 DEF TypeOK
<1>6. CASE ListWorks(p)
  <2>1. phase[p] = "list" /\ UNCHANGED works
    BY <1>6, Zenon DEF ListWorks
  <2>2. phase' # [phase EXCEPT ![p] = "up"]
    BY DEF TypeOK
  <2>3. toSweep' = [toSweep EXCEPT ![p] = {c \in Clusters : works[c].state # "none"}]
    BY <1>6, <2>2, Zenon DEF ListWorks, Up
  <2>4. QED
    BY <2>1, <2>3 DEF TypeOK
<1>7. CASE \E c \in Clusters : SweepWork(p, c)
  BY <1>7, Zenon DEF SweepWork
<1>8. CASE Lifecycle(p)
  BY <1>5, <1>6, <1>7, <1>8, Zenon DEF Lifecycle
<1>9. CASE phase[p] = "sweep" /\ toSweep'[p] = toSweep[p] /\ missed'[p] = missed[p]
  BY <1>9
<1>10. QED
  BY <1>1, <1>2, <1>3, <1>4, <1>8, <1>9, Zenon DEF Next

\* While a pod sweeps nobody else writes ManifestWorks.
LEMMA NoWriteUnlessUp ==
  ASSUME OnePod, NEW p \in Pods, phase[p] \notin {"down", "up"}, NEW q \in Pods
  PROVE  pc[p] = "idle" /\ ~WriteGenerated(q) /\ (phase[q] # "down" => q = p) /\ pc[q] = "idle"
<1>1. pc[q] = "idle" /\ pc[p] = "idle" /\ (phase[q] # "down" => q = p)
  BY DEF OnePod
<1>2. QED
  BY <1>1 DEF WriteGenerated

\* The sweep leaves what it has passed ReadOnly.
LEMMA SweptStep == TypeOK /\ OnePod /\ Swept /\ [Next]_vars => Swept'
<1> SUFFICES ASSUME TypeOK, OnePod, Swept, [Next]_vars,
                    NEW p \in Pods, phase'[p] = "sweep", ~missed'[p],
                    NEW c \in Clusters, works'[c].state = "live"
             PROVE  works'[c].readOnly \/ c \in toSweep'[p]
  BY DEF Swept
<1>1. phase[p] \in {"list", "sweep"}
  BY SweepFrom
<1>2. works[c].state = "live" /\ (works[c].readOnly => works'[c].readOnly)
  BY <1>1, NoWriteUnlessUp, OnlyWritesRevive
<1>3. CASE phase[p] = "sweep" /\ toSweep'[p] = toSweep[p] /\ missed'[p] = missed[p]
  BY <1>2, <1>3 DEF Swept
<1>4. CASE UNCHANGED works /\ toSweep'[p] = {d \in Clusters : works[d].state # "none"}
  BY <1>4
<1>5. ASSUME phase[p] = "sweep", NEW d \in toSweep[p], SweepWork(p, d)
      PROVE  works'[c].readOnly \/ c \in toSweep'[p]
  <2>1. toSweep'[p] = toSweep[p] \ {d} /\ d \in Clusters
    BY <1>5 DEF SweepWork, TypeOK
  <2>2. ~missed[p] /\ (works[d].readOnly \/ works' = [works EXCEPT ![d] = SetReadOnly(works[d])])
    <3>1. missed' # [missed EXCEPT ![p] = TRUE]
      BY DEF TypeOK
    <3>2. QED
      BY <1>5, <3>1, Zenon DEF SweepWork, WriteWork
  <2>3. works'[d].state = "live" => works'[d].readOnly
    BY <1>2, <2>1, <2>2, OnlyWritesRevive, NoWriteUnlessUp, <1>1 DEF TypeOK, Work, SetReadOnly
  <2>4. works[c].readOnly \/ c \in toSweep[p]
    BY <1>2, <1>5, <2>2 DEF Swept
  <2>5. QED
    BY <1>2, <2>1, <2>3, <2>4
<1>6. QED
  BY <1>3, <1>4, <1>5, SweepFrom

\* A failure is not forgotten.
LEMMA FaultsStay == TypeOK /\ [Next]_vars /\ faults' = 0 => UNCHANGED faults
<1> SUFFICES ASSUME TypeOK, [Next]_vars, faults' = 0 PROVE UNCHANGED faults
  OBVIOUS
<1>1. UNCHANGED faults \/ faults' = faults + 1
  <2>1. CASE Users \/ Agents \/ UNCHANGED vars
    BY <2>1, OutsidePods, Zenon DEF vars
  <2>2. ASSUME NEW p \in Pods, Start(p) \/ Stop(p) \/ Lifecycle(p)
        PROVE  UNCHANGED faults \/ faults' = faults + 1
    BY <2>2, Zenon DEF Start, Stop, Lifecycle, Boot, ListWorks, EndSweep, SweepWork, Succeed, Fault
  <2>3. ASSUME NEW p \in Pods, Reconcile(p) PROVE UNCHANGED faults \/ faults' = faults + 1
    BY <2>3, Zenon DEF Reconcile, Take, ReadConfig, GetApplication, Check, GetWork,
       WriteGenerated, ClearOperation, DeleteWork, Finalize, Succeed, Fault
  <2>4. QED
    BY <2>1, <2>2, <2>3, Zenon DEF Next
<1>2. QED
  BY <1>1 DEF TypeOK

\* What a step does to a configuration that froze the pull model, when no call fails.
LEMMA FrozenSteps ==
  ASSUME TypeOK, OnePod, FrozenIdle, [Next]_vars, frozen, frozen', faults = 0, faults' = 0
  PROVE  /\ config' = "disabled" /\ \A p \in Pods : ~WriteGenerated(p)
         /\ \A p \in Pods : pc'[p] \in {"idle", "load"}
<1>1. /\ config = "disabled" /\ \A p \in Pods : pc[p] \in {"idle", "load"}
      /\ ~ConfigAllows(config) /\ ~Fault
  BY DEF FrozenIdle, ConfigAllows, Fault
<1>2. \A p \in Pods : ~WriteGenerated(p)
  BY <1>1 DEF WriteGenerated
<1>3. config' = "disabled"
  <2>1. ~EditConfig
    BY Zenon DEF EditConfig
  <2>2. CASE Users \/ Agents \/ UNCHANGED vars
    BY <1>1, <2>1, <2>2, Zenon DEF vars, Users, EditApplication, DeleteApplication, EditPlacement,
       DetachCluster, Agents, Apply, Retire
  <2>3. ASSUME NEW p \in Pods, Start(p) \/ Stop(p) \/ Lifecycle(p) PROVE UNCHANGED config
    BY <1>1, <2>3, Zenon DEF Start, Stop, Lifecycle, Boot, ListWorks, EndSweep, SweepWork
  <2>4. ASSUME NEW p \in Pods, Reconcile(p) PROVE UNCHANGED config
    BY <1>1, <2>4, Zenon DEF Reconcile, Take, ReadConfig, GetApplication, Check, GetWork,
       WriteGenerated, ClearOperation, DeleteWork, Finalize
  <2>5. QED
    BY <1>1, <2>2, <2>3, <2>4, Zenon DEF Next
<1>4. ASSUME NEW p \in Pods PROVE pc'[p] \in {"idle", "load"}
  <2>1. CASE Users \/ Agents \/ UNCHANGED vars
    BY <1>1, <2>1, OutsidePods, Zenon DEF vars, workerVars
  <2>2. ASSUME NEW q \in Pods, Start(q) \/ Lifecycle(q) PROVE UNCHANGED pc
    BY <2>2, Zenon DEF Start, Lifecycle, Boot, ListWorks, EndSweep, SweepWork, PodUnchanged, workerVars
  <2>3. ASSUME NEW q \in Pods, Stop(q) PROVE pc'[p] \in {"idle", "load"}
    BY <1>1, <2>3 DEF Stop, TypeOK
  <2>4. ASSUME NEW q \in Pods, q # p, Reconcile(q) PROVE UNCHANGED pc[p]
    BY <2>4, ReconcileSteps
  <2>5. ASSUME Reconcile(p) PROVE pc'[p] \in {"idle", "load"}
    <3>1. Take(p) \/ ReadConfig(p)
      BY <1>1, <2>5 DEF Reconcile, GetApplication, Check, GetWork, WriteGenerated, ClearOperation,
         DeleteWork, Finalize
    <3>2. \E l \in {"idle", "load"} : pc' = [pc EXCEPT ![p] = l]
      BY <1>1, <3>1, Zenon DEF Take, ReadConfig, Goto
    <3>3. QED
      BY <3>2 DEF TypeOK
  <2>6. QED
    BY <1>1, <2>1, <2>2, <2>3, <2>4, <2>5, Zenon DEF Next
<1>5. QED
  BY <1>2, <1>3, <1>4

\* The pull model is frozen by the end of a sweep, which another step cannot be.
LEMMA FrozenFrom ==
  ASSUME [Next]_vars, frozen', ~frozen
  PROVE  \E p \in Pods : EndSweep(p) /\ config = "disabled" /\ ~missed[p]
<1>1. CASE Users \/ Agents \/ UNCHANGED vars
  BY <1>1, Zenon DEF vars, Users, EditApplication, DeleteApplication, EditConfig, EditPlacement,
     DetachCluster, Agents, Apply, Retire
<1>2. ASSUME NEW p \in Pods, Start(p) \/ Stop(p) \/ (Lifecycle(p) /\ ~EndSweep(p)) PROVE UNCHANGED frozen
  BY <1>2, Zenon DEF Start, Stop, Lifecycle, Boot, ListWorks, SweepWork
<1>3. ASSUME NEW p \in Pods, Reconcile(p) PROVE UNCHANGED frozen
  BY <1>3, Zenon DEF Reconcile, Take, ReadConfig, GetApplication, Check, GetWork, WriteGenerated,
     ClearOperation, DeleteWork, Finalize, ReadsUnchanged
<1>4. ASSUME NEW p \in Pods, EndSweep(p) PROVE config = "disabled" /\ ~missed[p]
  BY <1>4, Zenon DEF EndSweep
<1>5. QED
  BY <1>1, <1>2, <1>3, <1>4, Zenon DEF Next

\* A pull model that was frozen without a failed call stays so.
LEMMA FrozenIdleStep == TypeOK /\ OnePod /\ Swept /\ FrozenIdle /\ [Next]_vars => FrozenIdle'
<1> SUFFICES ASSUME TypeOK, OnePod, Swept, FrozenIdle, [Next]_vars, faults' = 0, frozen'
             PROVE  /\ config' = "disabled" /\ FrozenStays'
                    /\ \A p \in Pods : pc'[p] \in {"idle", "load"}
  BY DEF FrozenIdle
<1>1. faults = 0
  BY FaultsStay
<1>2. CASE frozen
  <2>1. \A c \in Clusters : works[c].state = "live" => works[c].readOnly
    BY <1>1, <1>2 DEF FrozenIdle, FrozenStays
  <2>2. \A c \in Clusters : works'[c].state = "live" => works'[c].readOnly
    BY <1>1, <1>2, <2>1, FrozenSteps, OnlyWritesRevive
  <2>3. QED
    BY <1>1, <1>2, <2>2, FrozenSteps DEF FrozenStays
<1>3. CASE ~frozen
  <2>1. PICK p \in Pods : EndSweep(p) /\ config = "disabled" /\ ~missed[p]
    BY <1>3, FrozenFrom
  <2>2. /\ phase[p] = "sweep" /\ toSweep[p] = {} /\ UNCHANGED <<config, works, pc>>
    BY <2>1, Zenon DEF EndSweep, PodUnchanged, workerVars
  <2>3. \A c \in Clusters : works[c].state = "live" => works[c].readOnly
    BY <2>1, <2>2 DEF Swept
  <2>4. \A q \in Pods : pc[q] = "idle"
    BY <2>2, NoWriteUnlessUp
  <2>5. QED
    BY <2>1, <2>2, <2>3, <2>4 DEF FrozenStays
<1>4. QED
  BY <1>2, <1>3

OnePodInv == OnePod /\ DeletedFirst /\ Swept /\ FrozenIdle

\* With one pod at a time (MaxAlive = 1): what the reconcile knows of ManifestWorks, and the
\* sweep of those it has passed, holds until the pod acts on it.
THEOREM PullOnePodInvariant == MaxAlive = 1 /\ Spec => []OnePodInv
<1> SUFFICES ASSUME MaxAlive = 1 PROVE Spec => []OnePodInv
  OBVIOUS
<1>1. Init => OnePodInv
  BY DEF Init, OnePodInv, OnePod, DeletedFirst, Swept, FrozenIdle
<1>2. TypeOK /\ OnePodInv /\ [Next]_vars => OnePodInv'
  BY OnePodStep, DeletedFirstStep, SweptStep, FrozenIdleStep, Zenon DEF OnePodInv
<1>3. QED
  BY <1>1, <1>2, PullTypeCorrect, PTL DEF Spec

\* After a complete sweep of a disabled pull model every ManifestWork stays ReadOnly while it
\* is disabled, unless a call failed: one pod at a time, any number of clusters, changes and
\* restarts (SweepManifestWorksToReadOnly, and the live read of the configuration).
THEOREM PullFrozen == MaxAlive = 1 /\ Spec => []FrozenUnlessFailed
<1>1. OnePodInv => FrozenUnlessFailed
  BY DEF OnePodInv, FrozenIdle, FrozenUnlessFailed, FrozenStays
<1>2. QED
  BY <1>1, PullOnePodInvariant, PTL

\* With one pod at a time, an Application held by the finalizer is let go only when the
\* ManifestWork of its cluster is gone or going (Reconcile, the branch of the deletion).
THEOREM PullWorkGoesFirst == MaxAlive = 1 /\ Spec => WorkGoesFirst
<1> DEFINE A == hub.exists /\ hub.finalizer /\ ~hub'.exists => works[hub.cluster].state # "live"
<1>1. TypeOK /\ IInv /\ OnePodInv /\ [Next]_vars => A
  <2> SUFFICES ASSUME TypeOK, IInv, OnePodInv, [Next]_vars, hub.exists, hub.finalizer, ~hub'.exists
               PROVE  works[hub.cluster].state # "live"
    OBVIOUS
  <2>1. hub' # hub
    OBVIOUS
  <2>2. ~Users
    <3>1. hub \in Application
      BY DEF TypeOK
    <3>2. UNCHANGED hub => hub'.exists
      BY <2>1
    <3>3. EditApplication => hub'.exists
      BY <3>1 DEF EditApplication, WriteHub, Application
    <3>4. DeleteApplication => hub'.exists
      BY <3>1 DEF DeleteApplication, WriteHub, Application
    <3>5. QED
      BY <3>2, <3>3, <3>4, Zenon DEF Users, EditConfig, EditPlacement, DetachCluster
  <2>3. PICK p \in Pods : ClearOperation(p) \/ Finalize(p)
    BY <2>1, <2>2, Zenon DEF Next, vars, Agents, Apply, Retire, Start, Stop, Lifecycle, Boot,
         ListWorks, EndSweep, SweepWork, PodUnchanged, Reconcile, Take, ReadConfig,
         GetApplication, Check, GetWork, WriteGenerated, DeleteWork, ReadsUnchanged
  <2>4. app[p] = hub
    <3>1. appFresh[p]
      BY <2>1, <2>3, Zenon DEF ClearOperation, Finalize, Updatable
    <3>2. QED
      BY <3>1 DEF IInv
  <2>5. ~ClearOperation(p)
    <3>1. ClearOperation(p) => hub' = [app[p] EXCEPT !.op = 0, !.inCluster = TRUE]
      BY <2>1, Zenon DEF ClearOperation, WriteHub
    <3>2. QED
      BY <2>4, <3>1 DEF TypeOK, Application
  <2>6. pc[p] = "finalize"
    BY <2>3, <2>5 DEF Finalize
  <2>7. QED
    BY <2>4, <2>6 DEF OnePodInv, DeletedFirst
<1>2. QED
  BY <1>1, PullTypeCorrect, PullInvariant, PullOnePodInvariant, PTL DEF Spec, WorkGoesFirst

-----------------------------------------------------------------------------
(* Rollout, again with one pod at a time. *)

\* The state that Rollout sees.
Asked   == [exists |-> hub.exists, ending |-> hub.deleting, held |-> hub.finalizer,
            cluster |-> hub.cluster, ver |-> hub.ver]
Offered == [c \in Clusters |-> [state |-> works[c].state, ver |-> works[c].ver]]
Runs    == [c \in Clusters |-> spoke[c].ver]

PlanStep == [Plan!Next]_<<Asked, present, Offered, Runs>>

\* A write of one ManifestWork is one of one offer.
LEMMA OfferedAt ==
  ASSUME TypeOK, NEW c \in Clusters, NEW w \in Work, works' = [works EXCEPT ![c] = w]
  PROVE  Offered' = [Offered EXCEPT ![c] = [state |-> w.state, ver |-> w.ver]]
<1>1. \A d \in Clusters : works'[d] = IF d = c THEN w ELSE works[d]
  BY DEF TypeOK
<1>2. QED
  BY <1>1 DEF Offered

\* What Rollout sees of a ManifestWork that is written with another spec.
LEMMA PlanOffer ==
  ASSUME TypeOK, NEW c \in Clusters, NEW w \in Work, works' = [works EXCEPT ![c] = w],
         works[c].ver <= w.ver, w.ver <= hub.ver,
         w.state = IF works[c].state = "none" THEN "live" ELSE works[c].state,
         UNCHANGED <<hub, present, spoke>>
  PROVE  PlanStep
<1>1. Offered[c] = [state |-> works[c].state, ver |-> works[c].ver]
  BY DEF Offered
<1>2. Offered' = [Offered EXCEPT ![c] = [state |-> IF @.state = "none" THEN "live" ELSE @.state,
                                          ver |-> w.ver]]
  <2> DEFINE o == [state |-> w.state, ver |-> w.ver]
  <2>1. o = [state |-> IF Offered[c].state = "none" THEN "live" ELSE Offered[c].state,
             ver |-> w.ver]
    BY <1>1
  <2>2. Offered' = [Offered EXCEPT ![c] = o]
    BY OfferedAt
  <2>3. QED
    BY <2>1, <2>2, Zenon
<1>3. w.ver \in Offered[c].ver .. Asked.ver
  BY <1>1 DEF Asked, TypeOK, Application, Work
<1>4. UNCHANGED <<Asked, present, Runs>>
  BY DEF Asked, Runs
<1>5. Plan!Offer(c)
  BY <1>2, <1>3, <1>4, Zenon DEF Plan!Offer, Asked, Offered, Runs
<1>6. QED
  BY <1>5, Zenon DEF PlanStep, Plan!Next

\* What it sees of one that is deleted while its Application is.
LEMMA PlanWithdraw ==
  ASSUME TypeOK, NEW c \in Clusters, works' = [works EXCEPT ![c] = [works[c] EXCEPT !.state = "deleting"]],
         works[c].state = "live", hub.deleting, UNCHANGED <<hub, present, spoke>>
  PROVE  PlanStep
<1>1. [works[c] EXCEPT !.state = "deleting"] \in Work
  BY RecordValues DEF TypeOK
<1>2. Offered[c] = [state |-> works[c].state, ver |-> works[c].ver]
  BY DEF Offered
<1>3. Offered' = [Offered EXCEPT ![c] = [state |-> "deleting", ver |-> works[c].ver]]
  <2> DEFINE w == [works[c] EXCEPT !.state = "deleting"]
  <2>1. w.state = "deleting" /\ w.ver = works[c].ver /\ w \in Work
    BY <1>1 DEF TypeOK, Work
  <2> HIDE DEF w
  <2>2. works' = [works EXCEPT ![c] = w]
    BY DEF w
  <2>3. Offered' = [Offered EXCEPT ![c] = [state |-> w.state, ver |-> w.ver]]
    BY <2>1, <2>2, OfferedAt
  <2>4. QED
    BY <2>1, <2>3
<1>4. Offered' = [Offered EXCEPT ![c].state = "deleting"]
  BY <1>2, <1>3 DEF Offered
<1>5. UNCHANGED <<Asked, present, Runs>>
  BY DEF Asked, Runs
<1>6. Asked.ending /\ Offered[c].state = "live"
  BY <1>2 DEF Asked
<1>7. Plan!Withdraw(c)
  BY <1>4, <1>5, <1>6, Zenon DEF Plan!Withdraw, Asked, Offered, Runs
<1>8. QED
  BY <1>7, Zenon DEF PlanStep, Plan!Next

\* The work agent runs what it is offered.
LEMMA PlanRun ==
  ASSUME TypeOK, NEW c \in Clusters, spoke' = [spoke EXCEPT ![c] = Delivery(c)],
         works[c].state = "live", spoke[c].ver <= works[c].ver, UNCHANGED <<hub, present, works>>
  PROVE  PlanStep
<1>1. Offered[c] = [state |-> works[c].state, ver |-> works[c].ver] /\ Runs[c] = spoke[c].ver
  BY DEF Offered, Runs
<1>2. \A d \in Clusters : spoke'[d].ver = IF d = c THEN works[c].ver ELSE spoke[d].ver
  BY DEF TypeOK, Delivery
<1>3. Runs' = [Runs EXCEPT ![c] = Offered[c].ver]
  <2>1. Runs' = [Runs EXCEPT ![c] = works[c].ver]
    BY <1>2 DEF Runs
  <2>2. QED
    BY <1>1, <2>1
<1>4. UNCHANGED <<Asked, present, Offered>>
  BY DEF Asked, Offered
<1>5. Offered[c].state = "live" /\ Runs[c] <= Offered[c].ver
  BY <1>1
<1>6. Plan!Run(c)
  BY <1>3, <1>4, <1>5, Zenon DEF Plan!Run, Asked, Offered, Runs
<1>7. QED
  BY <1>6, Zenon DEF PlanStep, Plan!Next

\* It removes what a ManifestWork that is being deleted brought.
LEMMA PlanRemove ==
  ASSUME TypeOK, NEW c \in Clusters, works' = [works EXCEPT ![c] = NoWork],
         spoke' = [spoke EXCEPT ![c].ver = 0],
         works[c].state = "deleting", UNCHANGED <<hub, present>>
  PROVE  PlanStep
<1>1. Offered[c].state = "deleting"
  BY DEF Offered
<1>2. Offered' = [Offered EXCEPT ![c] = Plan!NoOffer]
  BY OfferedAt, RecordValues DEF NoWork, Plan!NoOffer
<1>3. \A d \in Clusters : spoke'[d].ver = IF d = c THEN 0 ELSE spoke[d].ver
  BY DEF TypeOK, Delivered
<1>4. Runs' = [Runs EXCEPT ![c] = 0]
  BY <1>3 DEF Runs
<1>5. UNCHANGED <<Asked, present>>
  BY DEF Asked
<1>6. Plan!Remove(c)
  BY <1>1, <1>2, <1>4, <1>5, Zenon DEF Plan!Remove, Asked, Offered, Runs
<1>7. QED
  BY <1>6, Zenon DEF PlanStep, Plan!Next

\* The namespace of a detached cluster goes with the ManifestWork.
LEMMA PlanDetach ==
  ASSUME TypeOK, NEW c \in Clusters, works' = [works EXCEPT ![c] = NoWork],
         c \in present, present' = present \ {c}, UNCHANGED <<hub, spoke>>
  PROVE  PlanStep
<1>1. Offered' = [Offered EXCEPT ![c] = Plan!NoOffer]
  BY OfferedAt, RecordValues DEF NoWork, Plan!NoOffer
<1>2. UNCHANGED <<Asked, Runs>>
  BY DEF Asked, Runs
<1>3. Plan!Detach(c)
  BY <1>1, <1>2, Zenon DEF Plan!Detach, Asked, Offered, Runs
<1>4. QED
  BY <1>3, Zenon DEF PlanStep, Plan!Next

\* Two fields of what Rollout sees of the Application.
LEMMA AskedFields ==
  ASSUME NEW x, NEW y
  PROVE  /\ [Asked EXCEPT !.exists = x, !.ending = y]
              = [exists |-> x, ending |-> y, held |-> hub.finalizer,
                   cluster |-> hub.cluster, ver |-> hub.ver]
         /\ [Asked EXCEPT !.exists = x, !.held = y]
              = [exists |-> x, ending |-> hub.deleting, held |-> y,
                   cluster |-> hub.cluster, ver |-> hub.ver]
<1>1. [Asked EXCEPT !.exists = x, !.ending = y]
      = [exists |-> x, ending |-> y, held |-> hub.finalizer,
           cluster |-> hub.cluster, ver |-> hub.ver]
  <2>1. PICK b : b = [Asked EXCEPT !.exists = x]
    OBVIOUS
  <2>2. b = [exists |-> x, ending |-> hub.deleting, held |-> hub.finalizer,
           cluster |-> hub.cluster, ver |-> hub.ver]
    BY <2>1 DEF Asked
  <2>3. [b EXCEPT !.ending = y] = [exists |-> x, ending |-> y, held |-> hub.finalizer,
           cluster |-> hub.cluster, ver |-> hub.ver]
    BY <2>2
  <2>4. [Asked EXCEPT !.exists = x, !.ending = y] = [b EXCEPT !.ending = y]
    BY <2>1, Zenon
  <2>5. QED
    BY <2>3, <2>4
<1>2. [Asked EXCEPT !.exists = x, !.held = y]
      = [exists |-> x, ending |-> hub.deleting, held |-> y,
           cluster |-> hub.cluster, ver |-> hub.ver]
  <2>1. PICK b : b = [Asked EXCEPT !.exists = x]
    OBVIOUS
  <2>2. b = [exists |-> x, ending |-> hub.deleting, held |-> hub.finalizer,
           cluster |-> hub.cluster, ver |-> hub.ver]
    BY <2>1 DEF Asked
  <2>3. [b EXCEPT !.held = y] = [exists |-> x, ending |-> hub.deleting, held |-> y,
           cluster |-> hub.cluster, ver |-> hub.ver]
    BY <2>2
  <2>4. [Asked EXCEPT !.exists = x, !.held = y] = [b EXCEPT !.held = y]
    BY <2>1, Zenon
  <2>5. QED
    BY <2>3, <2>4
<1>3. QED
  BY <1>1, <1>2

\* An Application with another version and another cluster has only those two fields changed.
LEMMA AskedMoves ==
  ASSUME NEW r, r = [exists |-> hub.exists, ending |-> hub.deleting, held |-> hub.finalizer,
                     cluster |-> r.cluster, ver |-> r.ver]
  PROVE  r = [Asked EXCEPT !.ver = r.ver, !.cluster = r.cluster]
<1>1. PICK v, c : v = r.ver /\ c = r.cluster
  OBVIOUS
<1>2. r = [exists |-> hub.exists, ending |-> hub.deleting, held |-> hub.finalizer,
           cluster |-> c, ver |-> v]
  BY <1>1, Zenon
<1>3. PICK b : b = [Asked EXCEPT !.ver = v]
  OBVIOUS
<1>4. b = [exists |-> hub.exists, ending |-> hub.deleting, held |-> hub.finalizer,
           cluster |-> hub.cluster, ver |-> v]
  BY <1>3 DEF Asked
<1>5. [b EXCEPT !.cluster = c] = r
  BY <1>2, <1>4
<1>6. [Asked EXCEPT !.ver = v, !.cluster = c] = [b EXCEPT !.cluster = c]
  BY <1>3, Zenon
<1>7. r = [Asked EXCEPT !.ver = v, !.cluster = c]
  BY <1>5, <1>6, Zenon
<1>8. QED
  BY <1>1, <1>7, Zenon

\* What it sees of the Application.
LEMMA PlanAsk ==
  ASSUME TypeOK, hub.exists, hub' \in Application, hub.ver <= hub'.ver,
         hub'.exists = hub.exists, hub'.deleting = hub.deleting, hub'.finalizer = hub.finalizer,
         UNCHANGED <<present, works, spoke>>
  PROVE  PlanStep
<1>1. UNCHANGED <<present, Offered, Runs>>
  BY DEF Offered, Runs
<1>2. /\ Asked.exists /\ Asked'.ver >= Asked.ver /\ Asked'.cluster \in Clusters
      /\ Asked' = [Asked EXCEPT !.ver = Asked'.ver, !.cluster = Asked'.cluster]
  <2>1. hub.ver \in Nat /\ hub'.ver \in Nat /\ hub'.cluster \in Clusters
    BY DEF TypeOK, Application
  <2>2. Asked' = [exists |-> hub.exists, ending |-> hub.deleting, held |-> hub.finalizer,
                  cluster |-> hub'.cluster, ver |-> hub'.ver]
    BY DEF Asked
  <2>3. Asked'.ver = hub'.ver /\ Asked'.cluster = hub'.cluster
    BY DEF Asked
  <2>4. PICK r : r = Asked'
    OBVIOUS
  <2>5. r = [Asked EXCEPT !.ver = r.ver, !.cluster = r.cluster]
    <3>1. r = [exists |-> hub.exists, ending |-> hub.deleting, held |-> hub.finalizer,
               cluster |-> r.cluster, ver |-> r.ver]
      BY <2>2, <2>3, <2>4, Zenon
    <3>2. QED
      BY <3>1, AskedMoves, Zenon
  <2>6. Asked.exists /\ Asked.ver = hub.ver
    BY DEF Asked
  <2>7. QED
    BY <2>1, <2>3, <2>4, <2>5, <2>6, Zenon
<1>3. Plan!Ask
  BY <1>1, <1>2, Zenon DEF Plan!Ask, Asked, Offered, Runs
<1>4. QED
  BY <1>3, Zenon DEF PlanStep, Plan!Next

\* Its deletion.
LEMMA PlanEnd ==
  ASSUME TypeOK, hub.exists, ~hub.deleting,
         hub' = [hub EXCEPT !.exists = hub.finalizer, !.deleting = TRUE],
         UNCHANGED <<present, works, spoke>>
  PROVE  PlanStep
<1>1. UNCHANGED <<present, Offered, Runs>>
  BY DEF Offered, Runs
<1>2. /\ Asked.exists /\ ~Asked.ending
      /\ Asked' = [Asked EXCEPT !.exists = Asked.held, !.ending = TRUE]
  <2>1. /\ hub'.exists = hub.finalizer /\ hub'.deleting = TRUE /\ hub'.finalizer = hub.finalizer
        /\ hub'.cluster = hub.cluster /\ hub'.ver = hub.ver
    BY DEF Application, TypeOK
  <2>2. Asked' = [exists |-> hub.finalizer, ending |-> TRUE, held |-> hub.finalizer,
                  cluster |-> hub.cluster, ver |-> hub.ver]
    BY <2>1, Zenon DEF Asked
  <2>3. [Asked EXCEPT !.exists = hub.finalizer, !.ending = TRUE] = Asked'
    BY <2>2, AskedFields, Zenon
  <2>4. Asked.held = hub.finalizer /\ Asked.exists /\ ~Asked.ending
    BY DEF Asked
  <2>5. QED
    BY <2>3, <2>4, Zenon
<1>3. Plan!End
  BY <1>1, <1>2, Zenon DEF Plan!End, Asked, Offered, Runs
<1>4. QED
  BY <1>3, Zenon DEF PlanStep, Plan!Next

\* And its end.
LEMMA PlanLetGo ==
  ASSUME TypeOK, hub.exists, hub.deleting, works[hub.cluster].state # "live",
         hub' = [hub EXCEPT !.exists = FALSE, !.finalizer = FALSE],
         UNCHANGED <<present, works, spoke>>
  PROVE  PlanStep
<1>1. UNCHANGED <<present, Offered, Runs>>
  BY DEF Offered, Runs
<1>2. /\ Asked.exists /\ Asked.ending
      /\ Asked' = [Asked EXCEPT !.exists = FALSE, !.held = FALSE]
  <2>1. /\ hub'.exists = FALSE /\ hub'.finalizer = FALSE /\ hub'.deleting = hub.deleting
        /\ hub'.cluster = hub.cluster /\ hub'.ver = hub.ver
    BY DEF Application, TypeOK
  <2>2. Asked' = [exists |-> FALSE, ending |-> hub.deleting, held |-> FALSE,
                  cluster |-> hub.cluster, ver |-> hub.ver]
    BY <2>1, Zenon DEF Asked
  <2>3. [Asked EXCEPT !.exists = FALSE, !.held = FALSE] = Asked'
    BY <2>2, AskedFields, Zenon
  <2>4. Asked.exists /\ Asked.ending
    BY DEF Asked
  <2>5. QED
    BY <2>3, <2>4, Zenon
<1>3. Offered[Asked.cluster].state # "live"
  BY DEF Asked, Offered, Application, TypeOK
<1>4. Plan!LetGo
  BY <1>1, <1>2, <1>3, Zenon DEF Plan!LetGo, Asked, Offered, Runs
<1>5. QED
  BY <1>4, Zenon DEF PlanStep, Plan!Next

\* What a step does to the Application: a user edits or deletes it, its operation is cleared,
\* or its finalizer removed; and then it does nothing else.
LEMMA HubEffect ==
  ASSUME TypeOK, IInv, [Next]_vars, hub.ver <= changes + 1
  PROVE  /\ hub.ver <= hub'.ver /\ hub'.ver <= changes' + 1 /\ (hub.deleting => hub'.deleting)
         /\ \/ UNCHANGED hub
            \/ /\ hub.exists /\ UNCHANGED <<present, works, spoke>>
               /\ \/ /\ hub'.exists = hub.exists /\ hub'.deleting = hub.deleting
                     /\ hub'.finalizer = hub.finalizer
                  \/ /\ ~hub.deleting
                     /\ hub' = [hub EXCEPT !.exists = hub.finalizer, !.deleting = TRUE]
                  \/ /\ \E p \in Pods : pc[p] = "finalize" /\ app[p] = hub
                     /\ hub' = [hub EXCEPT !.exists = FALSE, !.finalizer = FALSE]
<1>0. hub \in Application /\ hub.ver \in Nat /\ changes \in Nat
  BY DEF TypeOK, Application
<1>1. CASE EditApplication
  <2>1. hub.exists /\ changes' = changes + 1 /\ UNCHANGED <<present, works, spoke>>
    BY <1>1, Zenon DEF EditApplication, Change, UserUnchanged
  <2>2. \/ hub' = [hub EXCEPT !.ver = changes' + 1, !.inCluster = FALSE]
        \/ hub' = [hub EXCEPT !.op = changes']
        \/ \E c \in Clusters : hub' = [hub EXCEPT !.cluster = c]
        \/ hub' = [hub EXCEPT !.labelled = ~@]
        \/ hub' = hub
    BY <1>1, Zenon DEF EditApplication, WriteHub
  <2>3. /\ hub'.exists = hub.exists /\ hub'.deleting = hub.deleting
        /\ hub'.finalizer = hub.finalizer /\ (hub'.ver = hub.ver \/ hub'.ver = changes' + 1)
    BY <1>0, <2>2 DEF Application
  <2>4. hub.ver <= hub'.ver /\ hub'.ver <= changes' + 1
    BY <1>0, <2>1, <2>3
  <2>5. QED
    BY <2>1, <2>3, <2>4, Zenon
<1>2. CASE DeleteApplication
  <2>1. /\ hub.exists /\ ~hub.deleting /\ changes' = changes + 1
        /\ hub' = [hub EXCEPT !.exists = hub.finalizer, !.deleting = TRUE]
        /\ UNCHANGED <<present, works, spoke>>
    BY <1>2, Zenon DEF DeleteApplication, Change, UserUnchanged, WriteHub
  <2>2. hub'.ver = hub.ver
    BY <1>0, <2>1 DEF Application
  <2>3. hub.ver <= hub'.ver /\ hub'.ver <= changes' + 1
    BY <1>0, <2>1, <2>2
  <2>4. QED
    BY <2>1, <2>3, Zenon
<1>3. ASSUME NEW p \in Pods, ClearOperation(p) \/ Finalize(p), hub' # hub
      PROVE  /\ hub.ver <= hub'.ver /\ hub'.ver <= changes' + 1 /\ (hub.deleting => hub'.deleting)
             /\ hub.exists /\ UNCHANGED <<present, works, spoke>>
             /\ \/ /\ hub'.exists = hub.exists /\ hub'.deleting = hub.deleting
                   /\ hub'.finalizer = hub.finalizer
                \/ /\ pc[p] = "finalize" /\ app[p] = hub
                   /\ hub' = [hub EXCEPT !.exists = FALSE, !.finalizer = FALSE]
  <2>1. /\ hub.exists /\ appFresh[p] /\ UNCHANGED <<present, works, spoke, changes>>
        /\ \/ hub' = [app[p] EXCEPT !.op = 0, !.inCluster = TRUE]
           \/ /\ pc[p] = "finalize"
              /\ hub' = [app[p] EXCEPT !.exists = FALSE, !.finalizer = FALSE]
    BY <1>3, Zenon DEF ClearOperation, Finalize, Updatable, WriteHub, bounds
  <2>2. app[p] = hub
    BY <2>1 DEF IInv
  <2>3. /\ hub'.ver = hub.ver /\ hub'.deleting = hub.deleting
        /\ \/ hub'.exists = hub.exists /\ hub'.finalizer = hub.finalizer
           \/ /\ pc[p] = "finalize"
              /\ hub' = [hub EXCEPT !.exists = FALSE, !.finalizer = FALSE]
    BY <1>0, <2>1, <2>2 DEF Application
  <2>4. hub.ver <= hub'.ver /\ hub'.ver <= changes' + 1
    BY <1>0, <2>1, <2>3
  <2>5. QED
    BY <2>1, <2>2, <2>3, <2>4, Zenon
<1>4. CASE UNCHANGED hub
  <2>1. changes' = changes \/ changes' = changes + 1
    <3>1. CASE Users
      BY <3>1, Zenon DEF Users, EditApplication, DeleteApplication, EditConfig, EditPlacement,
         DetachCluster, Change
    <3>2. CASE Agents \/ UNCHANGED vars
      BY <3>2, Zenon DEF Agents, Apply, Retire, vars, bounds
    <3>3. ASSUME NEW p \in Pods, Start(p) \/ Stop(p) \/ Lifecycle(p) PROVE UNCHANGED changes
      BY <3>3, Zenon DEF Start, Stop, Lifecycle, Boot, ListWorks, EndSweep, SweepWork, PodUnchanged
    <3>4. ASSUME NEW p \in Pods, Reconcile(p) PROVE UNCHANGED changes
      BY <3>4, Zenon DEF Reconcile, Take, ReadConfig, GetApplication, Check, GetWork,
         WriteGenerated, ClearOperation, DeleteWork, Finalize, ReadsUnchanged, bounds
    <3>5. QED
      BY <3>1, <3>2, <3>3, <3>4, Zenon DEF Next
  <2>2. QED
    BY <1>0, <1>4, <2>1
<1>5. hub' = hub \/ EditApplication \/ DeleteApplication
        \/ \E p \in Pods : ClearOperation(p) \/ Finalize(p)
  BY Zenon DEF Next, vars, Users, EditConfig, EditPlacement, DetachCluster, Agents, Apply, Retire,
       Start, Stop, Lifecycle, Boot, ListWorks, EndSweep, SweepWork, PodUnchanged, Reconcile,
       Take, ReadConfig, GetApplication, Check, GetWork, WriteGenerated, DeleteWork, ReadsUnchanged
<1>6. QED
  BY <1>1, <1>2, <1>3, <1>4, <1>5, Zenon

\* What a step does to the ManifestWorks and to what the clusters run.
LEMMA WorkEffect ==
  ASSUME TypeOK, [Next]_vars
  PROVE  \/ UNCHANGED <<present, works, spoke>>
         \/ \E c \in Clusters : DetachCluster(c) \/ Apply(c) \/ Retire(c)
         \/ /\ UNCHANGED <<hub, present, spoke>>
            /\ \E c \in Clusters :
                 \/ works' = [works EXCEPT ![c] = SetReadOnly(works[c])]
                 \/ \E p \in Pods : /\ WriteGenerated(p) /\ Writable(p) /\ c = app[p].cluster
                                    /\ works' = [works EXCEPT ![c] = Generated(p)]
                 \/ /\ \E p \in Pods : pc[p] = "delete" /\ c = app[p].cluster
                    /\ works[c].state = "live"
                    /\ works' = [works EXCEPT ![c] = [works[c] EXCEPT !.state = "deleting"]]
<1>1. CASE EditApplication \/ DeleteApplication \/ EditConfig \/ (\E c \in Clusters : EditPlacement(c))
           \/ UNCHANGED vars
  BY <1>1, Zenon DEF EditApplication, DeleteApplication, EditConfig, EditPlacement, UserUnchanged, vars
<1>2. CASE \E c \in Clusters : DetachCluster(c) \/ Apply(c) \/ Retire(c)
  BY <1>2, Zenon
<1>3. ASSUME NEW p \in Pods, Start(p) \/ Stop(p) \/ Lifecycle(p)
      PROVE  /\ UNCHANGED <<hub, present, spoke>>
             /\ \/ UNCHANGED works
                \/ \E c \in Clusters : works' = [works EXCEPT ![c] = SetReadOnly(works[c])]
  BY <1>3, Zenon DEF Start, Stop, Lifecycle, Boot, ListWorks, EndSweep, SweepWork, PodUnchanged, WriteWork
<1>4. ASSUME NEW p \in Pods, Reconcile(p), ~DeleteWork(p), ~WriteGenerated(p)
      PROVE  UNCHANGED <<present, works, spoke>>
  BY <1>4, Zenon DEF Reconcile, Take, ReadConfig, GetApplication, Check, GetWork, ClearOperation,
     Finalize, ReadsUnchanged
<1>5. ASSUME NEW p \in Pods, DeleteWork(p) \/ WriteGenerated(p)
      PROVE  /\ UNCHANGED <<hub, present, spoke>>
             /\ \/ UNCHANGED works
                \/ \E c \in Clusters :
                     \/ /\ WriteGenerated(p) /\ Writable(p) /\ c = app[p].cluster
                        /\ works' = [works EXCEPT ![c] = Generated(p)]
                     \/ /\ pc[p] = "delete" /\ c = app[p].cluster
                        /\ works[c].state = "live"
                        /\ works' = [works EXCEPT ![c] = [works[c] EXCEPT !.state = "deleting"]]
  <2>1. app[p].cluster \in Clusters
    BY DEF TypeOK, Application
  <2>2. CASE WriteGenerated(p)
    BY <2>1, <2>2, Zenon DEF WriteGenerated, WriteWork
  <2>3. CASE DeleteWork(p)
    BY <2>1, <2>3, Zenon DEF DeleteWork, WriteWork
  <2>4. QED
    BY <1>5, <2>2, <2>3
<1>6. CASE Users \/ Agents \/ UNCHANGED vars
  BY <1>1, <1>2, <1>6, Zenon DEF Users, Agents
<1>7. CASE \E p \in Pods : Start(p) \/ Stop(p) \/ Lifecycle(p)
  BY <1>3, <1>7, Zenon
<1>8. ASSUME NEW p \in Pods, Reconcile(p)
      PROVE  \/ UNCHANGED <<present, works, spoke>>
             \/ /\ UNCHANGED <<hub, present, spoke>>
                /\ \/ UNCHANGED works
                   \/ \E c \in Clusters :
                        \/ /\ WriteGenerated(p) /\ Writable(p) /\ c = app[p].cluster
                           /\ works' = [works EXCEPT ![c] = Generated(p)]
                        \/ /\ pc[p] = "delete" /\ c = app[p].cluster
                           /\ works[c].state = "live"
                           /\ works' = [works EXCEPT ![c] = [works[c] EXCEPT !.state = "deleting"]]
  BY <1>4, <1>5, <1>8
<1>9. ASSUME NEW p \in Pods, Reconcile(p)
      PROVE  \/ UNCHANGED <<present, works, spoke>>
             \/ /\ UNCHANGED <<hub, present, spoke>>
                /\ \E c \in Clusters :
                     \/ \E q \in Pods : /\ WriteGenerated(q) /\ Writable(q) /\ c = app[q].cluster
                                        /\ works' = [works EXCEPT ![c] = Generated(q)]
                     \/ /\ \E q \in Pods : pc[q] = "delete" /\ c = app[q].cluster
                        /\ works[c].state = "live"
                        /\ works' = [works EXCEPT ![c] = [works[c] EXCEPT !.state = "deleting"]]
  <2>1. CASE UNCHANGED <<present, works, spoke>>
    BY <2>1
  <2>2. ASSUME NEW c \in Clusters, UNCHANGED <<hub, present, spoke>>,
               WriteGenerated(p), Writable(p), c = app[p].cluster,
               works' = [works EXCEPT ![c] = Generated(p)]
        PROVE  /\ UNCHANGED <<hub, present, spoke>>
               /\ \E d \in Clusters, q \in Pods :
                    /\ WriteGenerated(q) /\ Writable(q) /\ d = app[q].cluster
                    /\ works' = [works EXCEPT ![d] = Generated(q)]
    BY <2>2, Zenon
  <2>3. ASSUME NEW c \in Clusters, UNCHANGED <<hub, present, spoke>>,
               pc[p] = "delete", c = app[p].cluster, works[c].state = "live",
               works' = [works EXCEPT ![c] = [works[c] EXCEPT !.state = "deleting"]]
        PROVE  /\ UNCHANGED <<hub, present, spoke>>
               /\ \E d \in Clusters :
                    /\ \E q \in Pods : pc[q] = "delete" /\ d = app[q].cluster
                    /\ works[d].state = "live"
                    /\ works' = [works EXCEPT ![d] = [works[d] EXCEPT !.state = "deleting"]]
    BY <2>3, Zenon
  <2>4. QED
    BY <1>8, <1>9, <2>1, <2>2, <2>3, Zenon
<1>10. QED
  BY <1>6, <1>7, <1>9, Zenon DEF Next

\* Specs go down the line in order: what a cluster runs is no newer than its ManifestWork, and
\* that no newer than the Application.
InOrder ==
  /\ hub.ver <= changes + 1
  /\ \A c \in Clusters : /\ works[c].ver <= hub.ver
                         /\ c \in present => spoke[c].ver <= works[c].ver
                         /\ c \notin present => works[c].state = "none"

\* What a pod has read is no newer than the hub, and, until it writes, no older than any
\* ManifestWork; and it deletes for an Application that is being deleted only.
Reading ==
  \A p \in Pods :
    /\ app[p].ver <= hub.ver /\ (app[p].deleting => hub.deleting)
    /\ pc[p] \in {"check", "getwork", "write"} => \A c \in Clusters : works[c].ver <= app[p].ver
    /\ pc[p] \in {"delete", "finalize"} => app[p].deleting

\* A worker gets to those places by reading the Application, or from one of them.
LEMMA ReadFrom ==
  ASSUME TypeOK, [Next]_vars, NEW p \in Pods
  PROVE  \/ /\ app'[p] = app[p]
            /\ pc'[p] \in {"check", "getwork", "write"} =>
                 pc[p] \in {"check", "getwork", "write"} /\ ~WriteGenerated(p)
            /\ pc'[p] \in {"delete", "finalize"} => pc[p] \in {"delete", "finalize"}
         \/ /\ app'[p] = hub /\ UNCHANGED <<hub, works>>
            /\ pc'[p] \in {"delete", "finalize"} => hub.deleting
<1>1. CASE Users \/ Agents \/ UNCHANGED vars
  <2>1. UNCHANGED <<pc, app>>
    BY <1>1, OutsidePods, Zenon DEF vars, workerVars
  <2>2. pc[p] = "write" => ~WriteGenerated(p)
    <3>1. UNCHANGED pc /\ pc[p] = "write" => ~WriteGenerated(p)
      BY DEF WriteGenerated, Goto, Retry, TypeOK
    <3>2. QED
      BY <2>1, <3>1
  <2>3. QED
    BY <2>1, <2>2 DEF WriteGenerated
<1>2. ASSUME NEW q \in Pods, Start(q) \/ Lifecycle(q) PROVE UNCHANGED <<pc, app>>
  BY <1>2, Zenon DEF Start, Lifecycle, Boot, ListWorks, EndSweep, SweepWork, PodUnchanged, workerVars
<1>3. ASSUME NEW q \in Pods, Stop(q)
      PROVE  app'[p] = app[p] /\ (pc'[p] = "idle" \/ pc'[p] = pc[p])
  BY <1>3 DEF Stop, TypeOK
<1>4. ASSUME NEW q \in Pods \ {p}, Reconcile(q) PROVE pc'[p] = pc[p] /\ app'[p] = app[p]
  BY <1>4, ReconcileSteps
<1>5. WriteGenerated(p) => pc'[p] \in {"idle", "clear"}
  BY DEF WriteGenerated, Goto, Retry, TypeOK
<1>6. CASE Reconcile(p)
  <2>1. CASE GetApplication(p)
    <3>1. CASE pc' = [pc EXCEPT ![p] = "idle"] /\ UNCHANGED app
      BY <3>1 DEF TypeOK
    <3>2. CASE /\ app' = [app EXCEPT ![p] = hub] /\ UNCHANGED <<hub, works>>
               /\ pc' = [pc EXCEPT ![p] = IF hub.deleting THEN "delete" ELSE "check"]
      BY <3>2 DEF TypeOK
    <3>3. QED
      BY <2>1, <3>1, <3>2, Zenon DEF GetApplication, ReadsUnchanged, Goto, Done, Retry
  <2>2. CASE Check(p) \/ GetWork(p)
    <3>1. /\ pc[p] \in {"check", "getwork"} /\ UNCHANGED app
          /\ \E l \in {"idle", "getwork", "write"} : pc' = [pc EXCEPT ![p] = l]
      BY <2>2 DEF Check, GetWork, Goto, Done, Retry
    <3>2. QED
      BY <3>1 DEF TypeOK, WriteGenerated
  <2>3. CASE DeleteWork(p)
    <3>1. /\ pc[p] = "delete" /\ UNCHANGED app
          /\ \E l \in {"idle", "finalize"} : pc' = [pc EXCEPT ![p] = l]
      BY <2>3 DEF DeleteWork, AfterDeleteFails, Goto, Retry
    <3>2. QED
      BY <3>1 DEF TypeOK
  <2>4. CASE Take(p) \/ ReadConfig(p) \/ WriteGenerated(p) \/ ClearOperation(p) \/ Finalize(p)
    <3>1. UNCHANGED app /\ \E l \in {"idle", "load", "get", "clear"} : pc' = [pc EXCEPT ![p] = l]
      BY <2>4 DEF Take, ReadConfig, WriteGenerated, ClearOperation, Finalize, Goto, Done, Retry
    <3>2. QED
      BY <3>1 DEF TypeOK
  <2>5. QED
    BY <1>6, <2>1, <2>2, <2>3, <2>4, Zenon DEF Reconcile
<1>7. ASSUME app'[p] = app[p], pc'[p] = "idle" \/ pc'[p] = pc[p]
      PROVE  /\ pc'[p] \in {"check", "getwork", "write"} =>
                  pc[p] \in {"check", "getwork", "write"} /\ ~WriteGenerated(p)
             /\ pc'[p] \in {"delete", "finalize"} => pc[p] \in {"delete", "finalize"}
  BY <1>5, <1>7
<1>8. QED
  BY <1>1, <1>2, <1>3, <1>4, <1>6, <1>7, Zenon DEF Next

\* Only a reconcile's write brings another spec into a ManifestWork.
LEMMA OnlyWritesRenew ==
  ASSUME TypeOK, [Next]_vars, \A p \in Pods : ~WriteGenerated(p)
  PROVE  \A c \in Clusters : works'[c].ver \in {0, works[c].ver}
<1>1. \/ UNCHANGED works
      \/ \E c \in Clusters, w \in Work : works' = [works EXCEPT ![c] = w] /\ w.ver \in {0, works[c].ver}
  <2>1. \A c \in Clusters : /\ NoWork \in Work /\ NoWork.ver = 0
                            /\ SetReadOnly(works[c]) \in Work /\ SetReadOnly(works[c]).ver = works[c].ver
                            /\ [works[c] EXCEPT !.state = "deleting"] \in Work
                            /\ [works[c] EXCEPT !.state = "deleting"].ver = works[c].ver
    <3>1. NoWork.ver = 0
      BY DEF NoWork
    <3>2. \A w \in Work : SetReadOnly(w).ver = w.ver /\ [w EXCEPT !.state = "deleting"].ver = w.ver
      BY DEF Work, SetReadOnly
    <3>3. \A c \in Clusters : works[c] \in Work
      BY DEF TypeOK
    <3>4. QED
      BY <3>1, <3>2, <3>3, RecordValues, Zenon
  <2>2. \A c \in Clusters : 0 \in {0, works[c].ver} /\ works[c].ver \in {0, works[c].ver}
    OBVIOUS
  <2>3. CASE \E c \in Clusters : DetachCluster(c) \/ Apply(c) \/ Retire(c)
    <3>1. PICK c \in Clusters : UNCHANGED works \/ works' = [works EXCEPT ![c] = NoWork]
      BY <2>3, Zenon DEF DetachCluster, Apply, Retire, WriteWork
    <3>2. QED
      BY <2>1, <2>2, <3>1, Zenon
  <2>4. ASSUME NEW c \in Clusters,
               \/ works' = [works EXCEPT ![c] = SetReadOnly(works[c])]
               \/ works' = [works EXCEPT ![c] = [works[c] EXCEPT !.state = "deleting"]]
        PROVE  \E w \in Work : works' = [works EXCEPT ![c] = w] /\ w.ver \in {0, works[c].ver}
    BY <2>1, <2>2, <2>4, Zenon
  <2>5. QED
    BY <2>3, <2>4, WorkEffect, Zenon
<1>2. QED
  BY <1>1 DEF TypeOK

\* A step keeps what a pod has read in order, if no other pod writes.
LEMMA ReadingStep ==
  ASSUME TypeOK, IInv, OnePod, InOrder, Reading, [Next]_vars
  PROVE  Reading'
<1> SUFFICES ASSUME NEW p \in Pods
             PROVE  /\ app'[p].ver <= hub'.ver /\ (app'[p].deleting => hub'.deleting)
                    /\ pc'[p] \in {"check", "getwork", "write"} =>
                         \A c \in Clusters : works'[c].ver <= app'[p].ver
                    /\ pc'[p] \in {"delete", "finalize"} => app'[p].deleting
  BY DEF Reading
<1>0. /\ hub.ver \in Nat /\ hub'.ver \in Nat /\ app[p].ver \in Nat
      /\ hub.ver <= hub'.ver /\ (hub.deleting => hub'.deleting)
  <2>1. TypeOK'
    BY TypeStep
  <2>2. hub.ver <= hub'.ver /\ (hub.deleting => hub'.deleting)
    BY HubEffect DEF InOrder
  <2>3. QED
    BY <2>1, <2>2 DEF TypeOK, Application
<1>1. ASSUME app'[p] = app[p],
             pc'[p] \in {"check", "getwork", "write"} =>
               pc[p] \in {"check", "getwork", "write"} /\ ~WriteGenerated(p),
             pc'[p] \in {"delete", "finalize"} => pc[p] \in {"delete", "finalize"}
      PROVE  /\ app'[p].ver <= hub'.ver /\ (app'[p].deleting => hub'.deleting)
             /\ pc'[p] \in {"check", "getwork", "write"} =>
                  \A c \in Clusters : works'[c].ver <= app'[p].ver
             /\ pc'[p] \in {"delete", "finalize"} => app'[p].deleting
  <2>1. app'[p].ver <= hub'.ver /\ (app'[p].deleting => hub'.deleting)
    BY <1>0, <1>1 DEF Reading
  <2>2. ASSUME pc'[p] \in {"check", "getwork", "write"}, NEW c \in Clusters
        PROVE  works'[c].ver <= app'[p].ver
    <3>1. pc[p] \in {"check", "getwork", "write"} /\ ~WriteGenerated(p)
      BY <1>1, <2>2
    <3>2. ASSUME NEW q \in Pods PROVE ~WriteGenerated(q)
      BY <3>1 DEF OnePod, WriteGenerated
    <3>3. works'[c].ver \in {0, works[c].ver}
      BY <3>2, OnlyWritesRenew
    <3>4. works[c].ver <= app[p].ver /\ works[c].ver \in Nat
      BY <3>1 DEF Reading, TypeOK, Work
    <3>5. QED
      BY <1>0, <1>1, <3>3, <3>4
  <2>3. pc'[p] \in {"delete", "finalize"} => app'[p].deleting
    BY <1>1 DEF Reading
  <2>4. QED
    BY <2>1, <2>2, <2>3
<1>2. ASSUME app'[p] = hub, UNCHANGED <<hub, works>>,
             pc'[p] \in {"delete", "finalize"} => hub.deleting
      PROVE  /\ app'[p].ver <= hub'.ver /\ (app'[p].deleting => hub'.deleting)
             /\ \A c \in Clusters : works'[c].ver <= app'[p].ver
             /\ pc'[p] \in {"delete", "finalize"} => app'[p].deleting
  BY <1>0, <1>2 DEF InOrder
<1>3. QED
  BY <1>1, <1>2, ReadFrom, Zenon

\* What a reconcile writes is in order.
LEMMA WriteInOrder ==
  ASSUME TypeOK, Reading, InOrder, NEW p \in Pods, WriteGenerated(p), Writable(p),
         NEW c \in Clusters, c = app[p].cluster
  PROVE  /\ c \in present /\ Generated(p) \in Work
         /\ works[c].ver <= Generated(p).ver /\ Generated(p).ver <= hub.ver
         /\ Generated(p).state = IF works[c].state = "none" THEN "live" ELSE works[c].state
<1>1. app[p] \in Application /\ works[c] \in Work
  BY DEF TypeOK
<1>2. /\ Generated(p).ver = app[p].ver
      /\ Generated(p).state = IF workSeen[p] THEN works[c].state ELSE "live"
      /\ Generated(p) \in Work
  BY <1>1 DEF Generated, Application, Work
<1>3. pc[p] = "write"
  BY Zenon DEF WriteGenerated
<1>4. works[c].ver <= app[p].ver /\ app[p].ver <= hub.ver
  BY <1>3 DEF Reading
<1>5. \/ workSeen[p] /\ works[c].state # "none"
      \/ ~workSeen[p] /\ works[c].state = "none" /\ c \in present
  BY DEF Writable
<1>6. c \in present
  BY <1>5 DEF InOrder
<1>7. QED
  BY <1>2, <1>4, <1>5, <1>6, Zenon

\* A step keeps the order.
LEMMA InOrderStep ==
  ASSUME TypeOK, IInv, InOrder, Reading, [Next]_vars
  PROVE  InOrder'
<1>0. /\ hub.ver <= hub'.ver /\ hub'.ver <= changes' + 1
      /\ hub.ver \in Nat /\ hub'.ver \in Nat
  <2>1. TypeOK'
    BY TypeStep
  <2>2. QED
    BY <2>1, HubEffect DEF TypeOK, Application, InOrder
<1>1. \A c \in Clusters : works[c] \in Work /\ spoke[c] \in Delivered
  BY DEF TypeOK
<1>2. CASE UNCHANGED <<present, works, spoke>>
  BY <1>0, <1>1, <1>2 DEF InOrder, Work
<1>3. ASSUME NEW c \in Clusters, DetachCluster(c) PROVE InOrder'
  <2>1. works' = [works EXCEPT ![c] = NoWork] /\ present' = present \ {c} /\ UNCHANGED spoke
    BY <1>3, Zenon DEF DetachCluster, WriteWork, UserUnchanged
  <2>2. \A d \in Clusters : works'[d] = IF d = c THEN NoWork ELSE works[d]
    BY <2>1 DEF TypeOK
  <2>3. QED
    BY <1>0, <1>1, <2>1, <2>2 DEF InOrder, Work, NoWork
<1>4. ASSUME NEW c \in Clusters, Apply(c) PROVE InOrder'
  <2>1. spoke' = [spoke EXCEPT ![c] = Delivery(c)] /\ UNCHANGED <<works, present>>
    BY <1>4, Zenon DEF Apply
  <2>2. \A d \in Clusters : spoke'[d].ver = IF d = c THEN works[c].ver ELSE spoke[d].ver
    BY <2>1 DEF TypeOK, Delivery
  <2>3. QED
    BY <1>0, <1>1, <2>1, <2>2 DEF InOrder, Work
<1>5. ASSUME NEW c \in Clusters, Retire(c) PROVE InOrder'
  <2>1. /\ works' = [works EXCEPT ![c] = NoWork] /\ spoke' = [spoke EXCEPT ![c].ver = 0]
        /\ UNCHANGED present
    BY <1>5, Zenon DEF Retire, WriteWork
  <2>2. \A d \in Clusters : /\ works'[d] = IF d = c THEN NoWork ELSE works[d]
                            /\ spoke'[d].ver = IF d = c THEN 0 ELSE spoke[d].ver
    BY <2>1 DEF TypeOK, Delivered
  <2>3. QED
    BY <1>0, <1>1, <2>1, <2>2 DEF InOrder, Work, NoWork
<1>6. ASSUME NEW c \in Clusters, NEW w \in Work, works' = [works EXCEPT ![c] = w],
             UNCHANGED <<present, spoke>>, works[c].ver <= w.ver, w.ver <= hub.ver,
             c \in present \/ w.state = works[c].state
      PROVE  InOrder'
  <2>1. \A d \in Clusters : works'[d] = IF d = c THEN w ELSE works[d]
    BY <1>6 DEF TypeOK
  <2>2. \A d \in Clusters : works'[d].ver \in Nat /\ works[d].ver \in Nat /\ spoke[d].ver \in Nat
    BY <1>1, <2>1 DEF Work, Delivered
  <2>3. QED
    BY <1>0, <1>6, <2>1, <2>2 DEF InOrder
<1>7. ASSUME NEW c \in Clusters, works' = [works EXCEPT ![c] = SetReadOnly(works[c])],
             UNCHANGED <<present, spoke>>
      PROVE  InOrder'
  <2>1. /\ SetReadOnly(works[c]) \in Work /\ SetReadOnly(works[c]).ver = works[c].ver
        /\ SetReadOnly(works[c]).state = works[c].state /\ works[c].ver \in Nat
    BY <1>1 DEF SetReadOnly, Work
  <2>2. works[c].ver <= hub.ver /\ works[c].ver <= works[c].ver
    BY <2>1 DEF InOrder
  <2>3. QED
    BY <1>6, <1>7, <2>1, <2>2
<1>8. ASSUME NEW c \in Clusters, works[c].state = "live", UNCHANGED <<present, spoke>>,
             works' = [works EXCEPT ![c] = [works[c] EXCEPT !.state = "deleting"]]
      PROVE  InOrder'
  <2>1. [works[c] EXCEPT !.state = "deleting"] \in Work
    BY <1>1, RecordValues
  <2>2. [works[c] EXCEPT !.state = "deleting"].ver = works[c].ver /\ works[c].ver \in Nat
    BY <1>1 DEF Work
  <2>3. c \in present /\ works[c].ver <= hub.ver /\ works[c].ver <= works[c].ver
    BY <1>8, <2>2 DEF InOrder
  <2>4. QED
    BY <1>6, <1>8, <2>1, <2>2, <2>3
<1>9. ASSUME NEW c \in Clusters, NEW p \in Pods, WriteGenerated(p), Writable(p),
             c = app[p].cluster, works' = [works EXCEPT ![c] = Generated(p)],
             UNCHANGED <<present, spoke>>
      PROVE  InOrder'
  BY <1>6, <1>9, WriteInOrder, Zenon
<1>10. QED
  BY <1>2, <1>3, <1>4, <1>5, <1>7, <1>8, <1>9, WorkEffect, Zenon

\* With one pod at a time, specs go down the line from the hub's Application to the ManifestWork
\* and the cluster in order, and what the pod has read is no older than what it overwrites.
THEOREM PullInOrder == MaxAlive = 1 /\ Spec => [](InOrder /\ Reading)
<1> SUFFICES ASSUME MaxAlive = 1 PROVE Spec => [](InOrder /\ Reading)
  OBVIOUS
<1>1. Init => InOrder /\ Reading
  <2> SUFFICES ASSUME Init PROVE InOrder /\ Reading
    OBVIOUS
  <2>1. hub.ver = 1 /\ hub.deleting = FALSE
    BY DEF Init
  <2>2. InOrder
    BY <2>1 DEF Init, InOrder, NoWork, NoDelivery
  <2>3. Reading
    BY <2>1 DEF Init, Reading
  <2>4. QED
    BY <2>2, <2>3
<1>2. TypeOK /\ IInv /\ OnePod /\ InOrder /\ Reading /\ [Next]_vars => (InOrder /\ Reading)'
  BY InOrderStep, ReadingStep, Zenon
<1>3. OnePodInv => OnePod
  BY DEF OnePodInv
<1>4. QED
  BY <1>1, <1>2, <1>3, PullTypeCorrect, PullInvariant, PullOnePodInvariant, PTL DEF Spec

\* A step of the Application is one that Rollout allows.
LEMMA PlanHub ==
  ASSUME TypeOK, IInv, OnePodInv, InOrder, Reading, [Next]_vars, hub' # hub
  PROVE  PlanStep
<1>1. hub' \in Application
  <2>1. TypeOK'
    BY TypeStep
  <2>2. QED
    BY <2>1 DEF TypeOK
<1>2. ASSUME NEW p \in Pods, pc[p] = "finalize", app[p] = hub
      PROVE  hub.deleting /\ works[hub.cluster].state # "live"
  BY <1>2 DEF OnePodInv, DeletedFirst, Reading
<1>3. hub.ver <= changes + 1
  BY DEF InOrder
<1>4. QED
  BY <1>1, <1>2, <1>3, HubEffect, PlanAsk, PlanEnd, PlanLetGo

\* So is a step of a ManifestWork or of a cluster.
LEMMA PlanWorks ==
  ASSUME TypeOK, IInv, InOrder, Reading, [Next]_vars, UNCHANGED hub
  PROVE  PlanStep
<1>1. CASE UNCHANGED <<present, works, spoke>>
  <2>1. UNCHANGED <<Asked, present, Offered, Runs>>
    BY <1>1 DEF Asked, Offered, Runs
  <2>2. QED
    BY <2>1, Zenon DEF PlanStep
<1>2. ASSUME NEW c \in Clusters, DetachCluster(c) PROVE PlanStep
  <2>1. /\ works' = [works EXCEPT ![c] = NoWork] /\ c \in present /\ present' = present \ {c}
        /\ UNCHANGED <<hub, spoke>>
    BY <1>2, Zenon DEF DetachCluster, WriteWork, UserUnchanged
  <2>2. QED
    BY <2>1, PlanDetach
<1>3. ASSUME NEW c \in Clusters, Apply(c) PROVE PlanStep
  <2>1. /\ spoke' = [spoke EXCEPT ![c] = Delivery(c)] /\ works[c].state = "live"
        /\ UNCHANGED <<hub, present, works>>
    BY <1>3, Zenon DEF Apply
  <2>2. spoke[c].ver <= works[c].ver
    BY <2>1 DEF InOrder
  <2>3. QED
    BY <2>1, <2>2, PlanRun
<1>4. ASSUME NEW c \in Clusters, Retire(c) PROVE PlanStep
  <2>1. /\ works' = [works EXCEPT ![c] = NoWork] /\ spoke' = [spoke EXCEPT ![c].ver = 0]
        /\ works[c].state = "deleting" /\ UNCHANGED <<hub, present>>
    BY <1>4, Zenon DEF Retire, WriteWork
  <2>2. QED
    BY <2>1, PlanRemove
<1>5. ASSUME NEW c \in Clusters, works' = [works EXCEPT ![c] = SetReadOnly(works[c])],
             UNCHANGED <<hub, present, spoke>>
      PROVE  PlanStep
  <2>1. \A d \in Clusters : works'[d].state = works[d].state /\ works'[d].ver = works[d].ver
    BY <1>5 DEF TypeOK, Work, SetReadOnly
  <2>2. UNCHANGED <<Asked, present, Offered, Runs>>
    BY <1>5, <2>1 DEF Asked, Offered, Runs
  <2>3. QED
    BY <2>2, Zenon DEF PlanStep
<1>6. ASSUME NEW c \in Clusters, NEW p \in Pods, WriteGenerated(p), Writable(p),
             c = app[p].cluster, works' = [works EXCEPT ![c] = Generated(p)],
             UNCHANGED <<hub, present, spoke>>
      PROVE  PlanStep
  BY <1>6, WriteInOrder, PlanOffer
<1>7. ASSUME NEW c \in Clusters, NEW p \in Pods, pc[p] = "delete", works[c].state = "live",
             works' = [works EXCEPT ![c] = [works[c] EXCEPT !.state = "deleting"]],
             UNCHANGED <<hub, present, spoke>>
      PROVE  PlanStep
  <2>1. hub.deleting
    BY <1>7 DEF Reading
  <2>2. QED
    BY <1>7, <2>1, PlanWithdraw
<1>8. QED
  BY <1>1, <1>2, <1>3, <1>4, <1>5, <1>6, <1>7, WorkEffect, Zenon

\* With one pod at a time the propagation controller, users and work agents together implement
\* Rollout: a cluster is offered specs the hub has asked for, never an older one than before; it
\* runs what it was offered; its ManifestWork is deleted only for an Application that is being
\* deleted, which is let go after that.  With two pods it is not so: README, section 5.
THEOREM PullFollowsPlan == MaxAlive = 1 /\ Spec => FollowsPlan
<1> DEFINE Inv == TypeOK /\ IInv /\ OnePodInv /\ InOrder /\ Reading
<1>1. Init => Plan!Init
  <2> SUFFICES ASSUME Init PROVE Plan!Init
    OBVIOUS
  <2>1. /\ hub.exists = TRUE /\ hub.deleting = FALSE /\ hub.finalizer \in BOOLEAN
        /\ hub.cluster \in Clusters /\ hub.ver \in Nat
    <3>1. hub.exists = TRUE /\ hub.deleting = FALSE /\ hub.cluster \in Clusters /\ hub.ver = 1
      BY DEF Init
    <3>2. hub.finalizer \in Finalizers /\ Finalizers \subseteq BOOLEAN
      BY DEF Init
    <3>3. hub.finalizer \in BOOLEAN
      BY <3>2, Zenon
    <3>4. QED
      BY <3>1, <3>3
  <2>2. Asked \in [exists : {TRUE}, ending : {FALSE}, held : BOOLEAN, cluster : Clusters, ver : Nat]
    BY <2>1 DEF Asked
  <2>3. present = Clusters /\ Offered = [c \in Clusters |-> Plan!NoOffer]
        /\ Runs = [c \in Clusters |-> 0]
    BY DEF Init, Offered, Runs, NoWork, NoDelivery, Plan!NoOffer
  <2>4. QED
    BY <2>2, <2>3, Zenon DEF Plan!Init, Asked, Offered, Runs
<1>2. Inv /\ [Next]_vars => PlanStep
  BY PlanHub, PlanWorks, Zenon
<1>3. MaxAlive = 1 /\ Spec => []Inv
  BY PullTypeCorrect, PullInvariant, PullOnePodInvariant, PullInOrder, PTL
<1>4. QED
  BY <1>1, <1>2, <1>3, PTL DEF Spec, FollowsPlan, PlanStep, Plan!Spec, Asked, Offered, Runs
=============================================================================
