-------------------------- MODULE SpokeCleanupProofs --------------------------
(***************************************************************************)
(* Theorems about SpokeCleanup, for every chart and every number of        *)
(* retries, restores, failures and crashes.                                *)
(***************************************************************************)
EXTENDS SpokeCleanup, TLAPS

USE CleanupAssumption

-----------------------------------------------------------------------------
(* The inductive invariant. *)

\* How far an attempt of the Job has come, as long as nothing failed and nobody wrote
\* behind it: each part it has removed stays removed.
CleanSoFar ==
  ~job.errs /\ ~unreported /\ ~recreated =>
    /\ job.pc \in {"csvs", "first", "again", "second", "orphan", "rbac", "succeeded"} => ~sub
    /\ job.pc \in {"first", "again", "second", "orphan", "rbac", "succeeded"} => ~csv
    /\ job.pc \in {"again", "second", "orphan", "rbac", "succeeded"} => Ours = {}

\* Past the ArgoCD CR there is none, and nobody is left who makes one.
QuietAfterCR ==
  job.pc \in {"subs", "csvs", "first", "again", "second", "orphan", "rbac"}
    => cr = "absent" /\ ~policy /\ ~queued

CleanupInv == /\ TypeOK /\ CleanSoFar /\ QuietAfterCR
              /\ job.pc = "succeeded" => ~job.errs

\* The Job's pods begin and end anew.
LEMMA CleanupJobs ==
  /\ Job("marker") \in [pc : JobPCs, errs : BOOLEAN, found : BOOLEAN]
  /\ Job("failed") \in [pc : JobPCs, errs : BOOLEAN, found : BOOLEAN]
BY DEF Job, JobPCs

\* It holds when the addon is there and nothing is installed yet.
LEMMA CleanupInit == Init => CleanupInv
<1> SUFFICES ASSUME Init PROVE CleanupInv
  OBVIOUS
<1>1. ClusterOK
  BY DEF Init, ClusterOK
<1>2. ProgramsOK
  BY DEF Init, ProgramsOK, NoPod, NoJob, Job, JobPCs
<1>3. BoundsOK
  BY DEF Init, BoundsOK
<1>4. ModeOK
  BY DEF Init, ModeOK, NoPod, NoJob, Job, Ours
<1>5. CleanSoFar /\ QuietAfterCR /\ (job.pc = "succeeded" => ~job.errs)
  BY DEF Init, CleanSoFar, QuietAfterCR, NoJob, Job
<1>6. QED
  BY <1>1, <1>2, <1>3, <1>4, <1>5 DEF CleanupInv, TypeOK

\* The hub, the work agent, OLM, the operator and the policy keep it.
LEMMA CleanupOutside ==
  ASSUME CleanupInv, DisableAddon \/ EnableAddon \/ External
  PROVE  CleanupInv'
<1> USE DEF cluster, env, bounds, Fault, Succeed, Job, NoJob, NoPod, Running,
           Ours, JobPCs, CleanupInv, TypeOK, ClusterOK, ProgramsOK, BoundsOK, ModeOK,
           CleanSoFar, QuietAfterCR
<1>1. CASE DisableAddon
  <2>1. ClusterOK'
    BY <1>1 DEF DisableAddon
  <2>2. ProgramsOK'
    BY <1>1 DEF DisableAddon
  <2>3. BoundsOK'
    BY <1>1 DEF DisableAddon
  <2>4. (ModeOK /\ CleanSoFar /\ QuietAfterCR /\ (job.pc = "succeeded" => ~job.errs))'
    BY <1>1 DEF DisableAddon
  <2>5. QED
    BY <2>1, <2>2, <2>3, <2>4, Zenon DEF CleanupInv, TypeOK
<1>2. CASE EnableAddon
  BY <1>2 DEF EnableAddon
<1>3. CASE WorkApplies
  BY <1>3 DEF WorkApplies
<1>4. CASE JobWorkApplies
  BY <1>4 DEF JobWorkApplies
<1>5. CASE PolicyGoes
  <2>1. ClusterOK'
    <3>1. ClusterOK
      BY Zenon DEF CleanupInv, TypeOK
    <3> HIDE DEF CleanupInv
    <3>2. /\ policy' = FALSE /\ queued' \in BOOLEAN
          /\ UNCHANGED <<mode, work, dep, rbac, marker, cached, objs, sub, csv, cr>>
      BY <1>5 DEF PolicyGoes
    <3>3. QED
      BY <3>1, <3>2, ZenonT(30)
  <2>2. ProgramsOK'
    BY <1>5 DEF PolicyGoes
  <2>3. BoundsOK'
    BY <1>5 DEF PolicyGoes
  <2>4. (ModeOK /\ CleanSoFar /\ QuietAfterCR /\ (job.pc = "succeeded" => ~job.errs))'
    BY <1>5 DEF PolicyGoes
  <2>5. QED
    BY <2>1, <2>2, <2>3, <2>4, Zenon DEF CleanupInv, TypeOK
<1>6. CASE PolicyEnforces
  <2>1. ClusterOK'
    <3>1. cr' \in {"absent", "bare", "managed", "deleting"} /\ queued' = FALSE
      BY <1>6 DEF PolicyEnforces
    <3>2. UNCHANGED <<mode, work, dep, rbac, marker, cached, objs, sub, csv, policy>>
      BY <1>6 DEF PolicyEnforces
    <3>3. QED
      BY <3>1, <3>2, ZenonT(60)
  <2>2. ProgramsOK'
    BY <1>6 DEF PolicyEnforces
  <2>3. BoundsOK'
    BY <1>6 DEF PolicyEnforces
  <2>4. (ModeOK /\ CleanSoFar /\ QuietAfterCR /\ (job.pc = "succeeded" => ~job.errs))'
    BY <1>6 DEF PolicyEnforces
  <2>5. QED
    BY <2>1, <2>2, <2>3, <2>4, Zenon DEF CleanupInv, TypeOK
<1>7. CASE WorkGoes
  <2>1. ClusterOK'
    BY <1>7 DEF WorkGoes
  <2>2. ProgramsOK'
    BY <1>7 DEF WorkGoes
  <2>3. BoundsOK'
    BY <1>7 DEF WorkGoes
  <2>4. (ModeOK /\ CleanSoFar /\ QuietAfterCR /\ (job.pc = "succeeded" => ~job.errs))'
    BY <1>7 DEF WorkGoes
  <2>5. QED
    BY <2>1, <2>2, <2>3, <2>4, Zenon DEF CleanupInv, TypeOK
<1>8. CASE Olm
  BY <1>8 DEF Olm
<1>9. CASE OperatorActs
  BY <1>9 DEF OperatorActs
<1>10. QED
  BY <1>1, <1>2, <1>3, <1>4, <1>5, <1>6, <1>7, <1>8, <1>9, Zenon DEF External

\* So does the addon agent, whose writes count as recreated.
LEMMA CleanupAgent ==
  ASSUME CleanupInv, CacheSyncs \/ Agent
  PROVE  CleanupInv'
<1> USE DEF cluster, env, bounds, PodUnchanged, Wrote, Fault, Succeed, NoPod,
           Ours, JobPCs, CleanupInv, TypeOK, ClusterOK, ProgramsOK, BoundsOK, ModeOK,
           CleanSoFar, QuietAfterCR
<1>1. CASE CacheSyncs
  BY <1>1 DEF CacheSyncs
<1>2. CASE PodStarts
  BY <1>2 DEF PodStarts
<1>3. CASE PodEnds
  <2>1. ClusterOK'
    <3>1. ClusterOK
      BY Zenon DEF CleanupInv, TypeOK
    <3> HIDE DEF CleanupInv
    <3>2. /\ cached' = FALSE
          /\ UNCHANGED <<mode, work, dep, rbac, marker, objs, sub, csv, cr, policy, queued>>
      BY <1>3 DEF PodEnds
    <3>3. QED
      BY <3>1, <3>2, ZenonT(60) DEF ClusterOK
  <2>2. ProgramsOK'
    BY <1>3 DEF PodEnds
  <2>3. BoundsOK'
    BY <1>3 DEF PodEnds
  <2>4. (ModeOK /\ CleanSoFar /\ QuietAfterCR /\ (job.pc = "succeeded" => ~job.errs))'
    BY <1>3 DEF PodEnds
  <2>5. QED
    BY <2>1, <2>2, <2>3, <2>4, Zenon DEF CleanupInv, TypeOK
<1>4. CASE ClearStalePauseMarker
  BY <1>4 DEF ClearStalePauseMarker, MarkerFound
<1>5. CASE PassBegins
  BY <1>5 DEF PassBegins, Manifests
<1>6. CASE PassEnds
  <2>1. ClusterOK'
    <3>1. sub' \in BOOLEAN
      BY <1>6 DEF PassEnds
    <3>2. UNCHANGED <<mode, work, dep, rbac, marker, cached, objs, csv, cr, policy, queued>>
      BY <1>6 DEF PassEnds
    <3>3. QED
      BY <3>1, <3>2
  <2>2. ProgramsOK'
    BY <1>6 DEF PassEnds
  <2>3. BoundsOK'
    BY <1>6 DEF PassEnds
  <2>4. (ModeOK /\ CleanSoFar /\ QuietAfterCR /\ (job.pc = "succeeded" => ~job.errs))'
    BY <1>6 DEF PassEnds
  <2>5. QED
    BY <2>1, <2>2, <2>3, <2>4, Zenon DEF CleanupInv, TypeOK
<1>7. ASSUME NEW o \in Objects, ApplyManifest(o) PROVE CleanupInv'
  <2>1. ClusterOK'
    BY <1>7 DEF ApplyManifest, Applicable
  <2>2. ProgramsOK'
    BY <1>7 DEF ApplyManifest
  <2>3. BoundsOK'
    BY <1>7 DEF ApplyManifest
  <2>4. ModeOK'
    BY <1>7 DEF ApplyManifest
  <2>5. CleanSoFar'
    BY <1>7 DEF ApplyManifest
  <2>6. (QuietAfterCR /\ (job.pc = "succeeded" => ~job.errs))'
    BY <1>7 DEF ApplyManifest
  <2>7. QED
    BY <2>1, <2>2, <2>3, <2>4, <2>5, <2>6, Zenon DEF CleanupInv, TypeOK
<1>8. QED
  BY <1>1, <1>2, <1>3, <1>4, <1>5, <1>6, <1>7, Zenon DEF Agent, Applies

\* And so does the Job.
LEMMA CleanupJob ==
  ASSUME CleanupInv, Cleanup \/ Crash \/ DeadlineExceeded
  PROVE  CleanupInv'
<1> USE DEF cluster, env, bounds, JobUnchanged, Done, FailedUnless, Failed, FailedUnreported,
           Go, GoWithError,
           Fault, Succeed, Job, NoJob, Running,
           Ours, JobPCs, CleanupInv, TypeOK, ClusterOK, ProgramsOK, BoundsOK, ModeOK,
           CleanSoFar, QuietAfterCR
<1>1. CASE CreatePauseMarker
  <2>1. ClusterOK'
    BY <1>1 DEF CreatePauseMarker
  <2>2. ProgramsOK'
    BY <1>1 DEF CreatePauseMarker
  <2>3. BoundsOK'
    BY <1>1 DEF CreatePauseMarker
  <2>4. (ModeOK /\ CleanSoFar /\ QuietAfterCR /\ (job.pc = "succeeded" => ~job.errs))'
    <3>1. /\ ModeOK /\ ProgramsOK /\ job.pc = "marker"
          /\ marker' = "owned" => marker = "owned" \/ dep # "gone"
      BY <1>1 DEF CreatePauseMarker
    <3> HIDE DEF CleanupInv
    <3>2. /\ \/ job' = [job EXCEPT !.pc = "scale"]
             \/ job' = [job EXCEPT !.pc = "scale", !.errs = TRUE]
          /\ UNCHANGED <<mode, dep, objs, sub, csv, pod>>
      BY <1>1, Zenon DEF CreatePauseMarker
    <3>3. job'.pc = "scale" /\ job'.found = job.found
      BY <3>1, <3>2, Zenon
    <3>4. QED
      BY <3>1, <3>2, <3>3
  <2>5. QED
    BY <2>1, <2>2, <2>3, <2>4, Zenon DEF CleanupInv, TypeOK
<1>2. CASE ScaleDown("scale", "argocd")
  BY <1>2 DEF ScaleDown
<1>3. CASE DeleteArgoCD
  BY <1>3 DEF DeleteArgoCD
<1>4. CASE ArgoCDStable
  BY <1>4 DEF ArgoCDStable, Elapsed
<1>5. CASE DeleteSubscriptions
  <2>1. ClusterOK'
    BY <1>5, ZenonT(60) DEF DeleteSubscriptions
  <2>2. ProgramsOK'
    BY <1>5, ZenonT(60) DEF DeleteSubscriptions
  <2>3. BoundsOK'
    BY <1>5 DEF DeleteSubscriptions
  <2>4. ModeOK'
    <3>1. (marker = "owned" => dep # "gone")'
      BY <1>5 DEF DeleteSubscriptions
    <3>2. (mode = "olm" => Ours = {} /\ pod.todo = {})'
      BY <1>5 DEF DeleteSubscriptions
    <3>3. (mode = "embedded" => ~sub /\ ~csv)'
      BY <1>5 DEF DeleteSubscriptions
    <3>4. (mode = "embedded" => ~job.found)'
      BY <1>5 DEF DeleteSubscriptions
    <3>5. QED
      BY <3>1, <3>2, <3>3, <3>4, Zenon
  <2>5. CleanSoFar'
    BY <1>5 DEF DeleteSubscriptions
  <2>6. (QuietAfterCR /\ (job.pc = "succeeded" => ~job.errs))'
    BY <1>5 DEF DeleteSubscriptions
  <2>7. QED
    BY <2>1, <2>2, <2>3, <2>4, <2>5, <2>6, Zenon DEF CleanupInv, TypeOK
<1>6. CASE DeleteCSVs
  <2>1. ClusterOK'
    BY <1>6 DEF DeleteCSVs, AfterCSVs
  <2>2. ProgramsOK'
    BY <1>6 DEF DeleteCSVs, AfterCSVs
  <2>3. BoundsOK'
    BY <1>6 DEF DeleteCSVs, AfterCSVs
  <2>4. ModeOK'
    <3>1. (marker = "owned" => dep # "gone")'
      BY <1>6 DEF DeleteCSVs, AfterCSVs
    <3>2. (mode = "olm" => Ours = {} /\ pod.todo = {})'
      BY <1>6 DEF DeleteCSVs, AfterCSVs
    <3>3. (mode = "embedded" => ~sub /\ ~csv)'
      BY <1>6 DEF DeleteCSVs, AfterCSVs
    <3>4. (mode = "embedded" => ~job.found)'
      BY <1>6 DEF DeleteCSVs, AfterCSVs
    <3>5. QED
      BY <3>1, <3>2, <3>3, <3>4, Zenon
  <2>5. CleanSoFar'
    BY <1>6, ZenonT(60) DEF DeleteCSVs, AfterCSVs
  <2>6. (QuietAfterCR /\ (job.pc = "succeeded" => ~job.errs))'
    BY <1>6 DEF DeleteCSVs, AfterCSVs
  <2>7. QED
    BY <2>1, <2>2, <2>3, <2>4, <2>5, <2>6, Zenon DEF CleanupInv, TypeOK
<1>7. CASE FirstPassEnds
  <2>1. ClusterOK'
    BY <1>7 DEF FirstPassEnds, FirstPassError
  <2>2. ProgramsOK'
    BY <1>7 DEF FirstPassEnds, FirstPassError
  <2>3. BoundsOK'
    BY <1>7 DEF FirstPassEnds, FirstPassError
  <2>4. (ModeOK /\ CleanSoFar /\ QuietAfterCR /\ (job.pc = "succeeded" => ~job.errs))'
    BY <1>7, ZenonT(60) DEF FirstPassEnds, FirstPassError
  <2>5. QED
    BY <2>1, <2>2, <2>3, <2>4, Zenon DEF CleanupInv, TypeOK
<1>8. CASE ScaleDown("again", "second")
  BY <1>8 DEF ScaleDown
<1>9. CASE SecondPassEnds
  BY <1>9 DEF SecondPassEnds
<1>10. CASE DeleteOrphanedPauseMarker
  BY <1>10 DEF DeleteOrphanedPauseMarker
<1>11. CASE DeleteRBAC
  <2>1. ClusterOK'
    BY <1>11, ZenonT(60) DEF DeleteRBAC
  <2>2. ProgramsOK'
    BY <1>11 DEF DeleteRBAC
  <2>3. BoundsOK'
    BY <1>11 DEF DeleteRBAC
  <2>4. (ModeOK /\ CleanSoFar /\ QuietAfterCR /\ (job.pc = "succeeded" => ~job.errs))'
    BY <1>11 DEF DeleteRBAC
  <2>5. QED
    BY <2>1, <2>2, <2>3, <2>4, Zenon DEF CleanupInv, TypeOK
<1>12. CASE Retry
  <2>1. ClusterOK'
    BY <1>12 DEF Retry
  <2>2. ProgramsOK'
    <3>1. job' = Job("marker") \/ job' = Job("failed")
      BY <1>12, Zenon DEF Retry
    <3>2. UNCHANGED <<pod, recreated>> /\ unreported' = FALSE
      BY <1>12 DEF Retry
    <3>3. job' \in [pc : JobPCs, errs : BOOLEAN, found : BOOLEAN]
      BY <3>1, CleanupJobs
    <3>4. QED
      BY <3>2, <3>3
  <2>3. BoundsOK'
    BY <1>12 DEF Retry
  <2>4. (ModeOK /\ CleanSoFar /\ QuietAfterCR /\ (job.pc = "succeeded" => ~job.errs))'
    BY <1>12 DEF Retry
  <2>5. QED
    BY <2>1, <2>2, <2>3, <2>4, Zenon DEF CleanupInv, TypeOK
<1>13. CASE Crash
  BY <1>13 DEF Crash
<1>14. ASSUME NEW o \in Objects, DeleteObject(o) PROVE CleanupInv'
  BY <1>14 DEF DeleteObject, Labelled
<1>15. CASE DeadlineExceeded
  BY <1>15 DEF DeadlineExceeded
<1>16. QED
  BY <1>1, <1>2, <1>3, <1>4, <1>5, <1>6, <1>7, <1>8, <1>9, <1>10, <1>11, <1>12, <1>13,
     <1>14, <1>15, Zenon DEF Cleanup

-----------------------------------------------------------------------------
(* The theorems. *)

\* The invariant: a Job keeps what it has achieved (uninstallOnManagedCluster).
THEOREM CleanupInvariant == Spec => []CleanupInv
<1>1. CleanupInv /\ [Next]_vars => CleanupInv'
  <2> SUFFICES ASSUME CleanupInv, [Next]_vars PROVE CleanupInv'
    OBVIOUS
  <2>1. CASE UNCHANGED vars
    BY <2>1 DEF vars, cluster, env, bounds, CleanupInv, TypeOK, ClusterOK, ProgramsOK, BoundsOK,
                ModeOK, CleanSoFar, QuietAfterCR, Ours
  <2>2. QED
    BY <2>1, CleanupOutside, CleanupAgent, CleanupJob, Zenon DEF Next
<1>2. QED
  BY <1>1, CleanupInit, PTL DEF Spec

\* Type correctness, with what OLM and the embedded chart exclude of each other.
THEOREM CleanupTypeCorrect == Spec => []TypeOK
<1>1. CleanupInv => TypeOK
  BY DEF CleanupInv
<1>2. QED
  BY <1>1, CleanupInvariant, PTL

\* A Job that reports success (runCleanupMode) has removed the installation, unless a call
\* whose failure the code only logs failed, or a restored addon agent wrote behind it.
THEOREM CleanupSuccessMeansClean == Spec => []SuccessMeansClean
<1>1. CleanupInv => SuccessMeansClean
  BY DEF CleanupInv, CleanSoFar, SuccessMeansClean, Clean
<1>2. QED
  BY <1>1, CleanupInvariant, PTL

\* The Job removes the operator only after the ArgoCD CR is finalized (deleteArgoCDCR).
THEOREM CleanupOperatorOutlives == Spec => OperatorOutlivesArgoCD
<1>1. CleanupInv => (job.pc \in {"csvs", "first", "second"} => cr \notin {"managed", "deleting"})
  BY DEF CleanupInv, QuietAfterCR
<1>2. CleanupInv /\ [Next]_vars =>
        [(job.pc \in {"csvs", "first", "second"} /\ OperatorUp /\ ~OperatorUp')
           => cr \notin {"managed", "deleting"}]_vars
  BY <1>1, Zenon
<1>3. QED
  BY <1>2, CleanupInvariant, PTL DEF Spec, OperatorOutlivesArgoCD

\* Neither the agent (applyManifest) nor the Job (deleteResourcesByType) touches what a user
\* installed without the label.
THEOREM CleanupUsersUntouched == Spec => UsersUntouched
<1>1. ASSUME TypeOK, [Next]_vars, NEW o \in Objects, objs[o] = "users"
      PROVE  objs'[o] = "users"
  <2>1. CASE UNCHANGED objs
    BY <1>1, <2>1
  <2>2. ASSUME NEW p \in Objects, ApplyManifest(p), ~UNCHANGED objs PROVE objs'[o] = "users"
    BY <1>1, <2>2 DEF ApplyManifest, Applicable, TypeOK, ClusterOK
  <2>3. ASSUME NEW p \in Objects, DeleteObject(p) PROVE objs'[o] = "users"
    BY <1>1, <2>3 DEF DeleteObject, Labelled, TypeOK, ClusterOK
  <2>4. QED
    BY <1>1, <2>1, <2>2, <2>3, Zenon
       DEF Next, External, WorkApplies, JobWorkApplies, DisableAddon, PolicyGoes, PolicyEnforces,
           WorkGoes, EnableAddon, Olm, OperatorActs, CacheSyncs, Agent, Applies, PodStarts,
           PodEnds, ClearStalePauseMarker, PassBegins, PassEnds, Cleanup, CreatePauseMarker,
           ScaleDown, DeleteArgoCD, ArgoCDStable, DeleteSubscriptions, DeleteCSVs, FirstPassEnds,
           SecondPassEnds, DeleteOrphanedPauseMarker, DeleteRBAC, Retry, Crash, DeadlineExceeded,
           vars, cluster
<1>2. TypeOK /\ [Next]_vars =>
        [\A o \in Objects : objs[o] = "users" => objs'[o] = "users"]_vars
  BY <1>1
<1>3. QED
  BY <1>2, CleanupTypeCorrect, PTL DEF Spec, UsersUntouched
==============================================================================
