----------------------- MODULE ClusterSecretsProofs -----------------------
(***************************************************************************)
(* Theorems about ClusterSecrets, for every number of clusters,            *)
(* GitOpsClusters, requests, changes, failures and crashes.                *)
(***************************************************************************)
EXTENDS ClusterSecrets, TLAPS

USE SpecsAssumption, BoundsAssumption

\* Replacing one secret keeps the type of the namespace.
LEMMA SecretsUpdate ==
  ASSUME NEW ss \in [Clusters -> [Slots -> Secret]], NEW c \in Clusters, NEW n \in Slots,
         NEW s \in Secret
  PROVE  [ss EXCEPT ![c][n] = s] \in [Clusters -> [Slots -> Secret]]
  OBVIOUS

\* So does setting or removing its Argo CD label.
LEMMA LabelUpdate ==
  ASSUME NEW ss \in [Clusters -> [Slots -> Secret]], NEW c \in Clusters, NEW n \in Slots,
         NEW b \in BOOLEAN
  PROVE  [ss EXCEPT ![c][n].typed = b] \in [Clusters -> [Slots -> Secret]]
<1>1. [ss[c][n] EXCEPT !.typed = b] \in Secret
  BY DEF Secret
<1>2. QED
  BY <1>1

\* The two records the controller builds, and the two it edits, are secrets.
LEMMA SecretValues ==
  /\ Gone \in Secret
  /\ [src |-> "agent", token |-> 0, typed |-> TRUE] \in Secret
  /\ \A s \in Secret, b \in BOOLEAN : [s EXCEPT !.typed = b] \in Secret
  BY DEF Secret, Sources, Gone

\* Striking clusters off a plan, with or without a failure, leaves a plan.
LEMMA PlanValues ==
  /\ NoPlan \in Plan
  /\ \A p \in Plan : \A S : /\ [p EXCEPT !.left = @ \ S] \in Plan
                             /\ [p EXCEPT !.left = @ \ S].g = p.g
                             /\ [p EXCEPT !.left = @ \ S, !.failed = TRUE] \in Plan
                             /\ [p EXCEPT !.left = @ \ S, !.failed = TRUE].g = p.g
  BY DEF Plan, NoPlan

\* So does entering the result of the two look-ups.
LEMMA PlanLookups ==
  ASSUME NEW p \in Plan, NEW S \in SUBSET Clusters, NEW b \in BOOLEAN
  PROVE  /\ [p EXCEPT !.nonAcm = S, !.proxySeen = b] \in Plan
         /\ [p EXCEPT !.nonAcm = S, !.proxySeen = b].g = p.g
  BY DEF Plan

\* The environment keeps the types.
LEMMA EnvironmentType == TypeOK /\ Environment => TypeOK'
<1> SUFFICES ASSUME TypeOK, Environment PROVE TypeOK'
  OBVIOUS
<1> USE DEF TypeOK, Change, MayNotify, EnvUnchanged, passVars, clusterPc, history, envVars
<1>1. ASSUME NEW c \in Clusters, DeleteManagedCluster(c) PROVE TypeOK'
  BY <1>1 DEF DeleteManagedCluster
<1>2. ASSUME NEW c \in Clusters, CreateManagedCluster(c) PROVE TypeOK'
  BY <1>2 DEF CreateManagedCluster
<1>3. ASSUME NEW c \in Clusters, RotateToken(c) PROVE TypeOK'
  BY <1>3 DEF RotateToken
<1>4. ASSUME NEW c \in Clusters, ChangeAccess(c) PROVE TypeOK'
  <2>1. proxyService' \in BOOLEAN
    BY <1>4, Zenon DEF ChangeAccess
  <2>2. access' \in [Clusters -> SUBSET {"proxy", "direct"}]
    BY <1>4 DEF ChangeAccess
  <2>3. QED
    BY <1>4, <2>1, <2>2 DEF ChangeAccess
<1>5. ASSUME NEW c \in Clusters, EditUserSecret(c) PROVE TypeOK'
  BY <1>5 DEF EditUserSecret, Secret, Slots, Sources, Gone
<1>6. ASSUME NEW g \in GitOpsClusters, NEW c \in Clusters, Decide(g, c) PROVE TypeOK'
  BY <1>6 DEF Decide
<1>7. ASSUME NEW c \in Clusters, NEW server \in {"proxyURL", "apiURL", "dummyURL"},
             EditApplication(c, server)
      PROVE TypeOK'
  BY <1>7 DEF EditApplication
<1>8. ASSUME NEW g \in GitOpsClusters, NEW sp \in Specs, EditGitOpsCluster(g, sp)
      PROVE TypeOK'
  BY <1>8 DEF EditGitOpsCluster
<1>9. QED
  BY <1>1, <1>2, <1>3, <1>4, <1>5, <1>6, <1>7, <1>8 DEF Environment

\* The worker keeps them.
LEMMA ReconcileType == TypeOK /\ Reconcile => TypeOK'
<1> SUFFICES ASSUME TypeOK, Reconcile PROVE TypeOK'
  OBVIOUS
<1> USE DEF TypeOK, PCs, ImportPCs, Fault, Succeed, MayNotify, passVars, clusterPc, history,
            bounds, envVars
<1>1. ASSUME NEW r \in Requests, Begin(r) PROVE TypeOK'
  BY <1>1 DEF Begin, GetAllManagedClusterSecretsInArgo
<1>2. ASSUME NEW r \in Requests, BeginFails(r) PROVE TypeOK'
  BY <1>2 DEF BeginFails, AfterListFailure
<1>3. ASSUME NEW g \in GitOpsClusters, SkipGitOpsCluster(g) PROVE TypeOK'
  BY <1>3 DEF SkipGitOpsCluster
<1>4. ASSUME NEW g \in GitOpsClusters, StartFails(g) PROVE TypeOK'
  <2>1. passFailed' \in BOOLEAN
    BY <1>4, Zenon DEF StartFails
  <2>2. faults' \in 0..MaxFaults
    <3>1. faults' = faults \/ (faults < MaxFaults /\ faults' = faults + 1)
      BY <1>4, Zenon DEF StartFails
    <3>2. QED
      BY <3>1
  <2>3. todo' \subseteq GitOpsClusters
    BY <1>4 DEF StartFails
  <2>4. UNCHANGED <<envVars, secrets, registered, queue, pc, req, orphans, plan, cluster,
                    clusterPc, history, bounds>>
    BY <1>4 DEF StartFails
  <2>5. QED
    BY <2>1, <2>2, <2>3, <2>4
<1>5. ASSUME NEW g \in GitOpsClusters, Start(g) PROVE TypeOK'
  BY <1>5 DEF Start, Plan
<1>6. ASSUME ImportFails PROVE TypeOK'
  BY <1>6 DEF ImportFails, Plan, NoPlan
<1>7. ASSUME BeginImport PROVE TypeOK'
  <2>1. GetAllNonAcmManagedClusterSecretsInArgo \subseteq Clusters
    BY DEF GetAllNonAcmManagedClusterSecretsInArgo
  <2>2. plan' \in Plan /\ plan'.g = plan.g
    <3>1. \/ plan' = plan
          \/ \E seen \in BOOLEAN :
               plan' = [plan EXCEPT !.nonAcm = GetAllNonAcmManagedClusterSecretsInArgo,
                                    !.proxySeen = seen]
      BY <1>7, Zenon DEF BeginImport
    <3>2. ASSUME NEW seen \in BOOLEAN,
                 plan' = [plan EXCEPT !.nonAcm = GetAllNonAcmManagedClusterSecretsInArgo,
                                      !.proxySeen = seen]
          PROVE  plan' \in Plan /\ plan'.g = plan.g
      <4> HIDE DEF GetAllNonAcmManagedClusterSecretsInArgo
      <4>1. plan \in Plan /\ GetAllNonAcmManagedClusterSecretsInArgo \in SUBSET Clusters
        BY <2>1
      <4>2. QED
        BY <3>2, <4>1, PlanLookups, Zenon
    <3>3. QED
      BY <3>1, <3>2
  <2>3. faults' \in 0..MaxFaults
    <3>1. faults' = faults \/ (faults < MaxFaults /\ faults' = faults + 1)
      BY <1>7, Zenon DEF BeginImport
    <3>2. QED
      BY <3>1
  <2>4. pc = "import" /\ pc' = "pick"
    BY <1>7 DEF BeginImport
  <2>5. UNCHANGED <<envVars, secrets, registered, queue, passVars, cluster, clusterPc,
                    history, bounds>>
    BY <1>7 DEF BeginImport
  <2>6. QED
    BY <2>2, <2>3, <2>4, <2>5
<1>8. ASSUME NEW c \in Clusters, PushSkips(c) PROVE TypeOK'
  <2>1. plan' \in Plan /\ plan'.g = plan.g
    BY <1>8, PlanValues DEF PushSkips
  <2>2. QED
    BY <1>8, <2>1 DEF PushSkips, SaveClusterSecret
<1>9. ASSUME NEW c \in Clusters, NEW src \in Sources, PushBuild(c, src) PROVE TypeOK'
  BY <1>9 DEF PushBuild, Chosen, SlotFor, TokenFor, Plan, Slots, Sources, Secret
<1>10. ASSUME NEW c \in Clusters, AgentWrite(c) PROVE TypeOK'
  <2>1. plan' \in Plan /\ plan'.g = plan.g
    BY <1>10, PlanValues DEF AgentWrite
  <2>2. secrets' \in [Clusters -> [Slots -> Secret]]
    BY <1>10, SecretValues, SecretsUpdate DEF AgentWrite, Slots
  <2>3. QED
    BY <1>10, <2>1, <2>2 DEF AgentWrite, AgentEvent
<1>11. ASSUME NEW c \in Clusters, AgentSkips(c) PROVE TypeOK'
  <2>1. plan' \in Plan /\ plan'.g = plan.g
    BY <1>11, PlanValues DEF AgentSkips
  <2>2. QED
    BY <1>11, <2>1 DEF AgentSkips
<1>12. ASSUME NEW c \in Clusters, NEW n \in Slots, KeepOrphan(c, n) PROVE TypeOK'
  BY <1>12 DEF KeepOrphan
<1>13. ASSUME NEW c \in Clusters, NEW n \in Slots, CheckOrphan(c, n) PROVE TypeOK'
  BY <1>13 DEF CheckOrphan
<1>14. ASSUME PushWrite PROVE TypeOK'
  BY <1>14 DEF PushWrite
<1>15. ASSUME PushWriteFails PROVE TypeOK'
  <2>1. plan' \in Plan /\ plan'.g = plan.g
    BY <1>15, PlanValues DEF PushWriteFails
  <2>2. QED
    BY <1>15, <2>1, SecretValues DEF PushWriteFails, SaveClusterSecret, ForgetCluster, Slots
<1>16. ASSUME CleanupOldClusterSecrets PROVE TypeOK'
  BY <1>16 DEF CleanupOldClusterSecrets
<1>17. ASSUME ListOld PROVE TypeOK'
  BY <1>17 DEF ListOld, OtherNames
<1>18. ASSUME NEW n \in Slots, KeepOld(n) PROVE TypeOK'
  BY <1>18 DEF KeepOld
<1>19. ASSUME NEW n \in Slots, CheckOld(n) PROVE TypeOK'
  BY <1>19 DEF CheckOld
<1>20. ASSUME Delabel PROVE TypeOK'
  <2>1. secrets' = secrets \/ secrets' = [secrets EXCEPT ![cluster][old].typed = FALSE]
    BY <1>20 DEF Delabel
  <2>2. [secrets EXCEPT ![cluster][old].typed = FALSE] \in [Clusters -> [Slots -> Secret]]
    BY LabelUpdate
  <2>3. secrets' \in [Clusters -> [Slots -> Secret]]
    BY <2>1, <2>2
  <2>4. QED
    BY <1>20, <2>3 DEF Delabel
<1>21. ASSUME DeleteOld PROVE TypeOK'
  <2>1. secrets' = secrets \/ secrets' = [secrets EXCEPT ![cluster][old] = Gone]
    BY <1>21 DEF DeleteOld
  <2>2. [secrets EXCEPT ![cluster][old] = Gone] \in [Clusters -> [Slots -> Secret]]
    BY SecretsUpdate, SecretValues
  <2>3. secrets' \in [Clusters -> [Slots -> Secret]]
    BY <2>1, <2>2
  <2>4. QED
    BY <1>21, <2>3 DEF DeleteOld
<1>22. ASSUME Relabel PROVE TypeOK'
  <2>1. secrets' = secrets \/ secrets' = [secrets EXCEPT ![cluster][old].typed = TRUE]
    BY <1>22 DEF Relabel, Relabelled
  <2>2. [secrets EXCEPT ![cluster][old].typed = TRUE] \in [Clusters -> [Slots -> Secret]]
    BY LabelUpdate
  <2>3. secrets' \in [Clusters -> [Slots -> Secret]]
    BY <2>1, <2>2
  <2>4. QED
    BY <1>22, <2>3 DEF Relabel
<1>23. ASSUME FinishCluster PROVE TypeOK'
  BY <1>23 DEF FinishCluster, Plan, ForgetCluster, Slots, Secret, Sources, Gone
<1>24. ASSUME DeleteBlankClusterSecrets PROVE TypeOK'
  BY <1>24 DEF DeleteBlankClusterSecrets, BlankNames, Secret, Gone, Sources
<1>25. ASSUME FinishGitOpsCluster PROVE TypeOK'
  <2>1. passFailed' \in BOOLEAN
    BY <1>25, Zenon DEF FinishGitOpsCluster
  <2>2. plan' \in Plan
    BY <1>25, PlanValues DEF FinishGitOpsCluster
  <2>3. registered' \in [GitOpsClusters -> {"Unknown", "True", "False"}]
    BY <1>25 DEF FinishGitOpsCluster, Outcome
  <2>4. QED
    BY <1>25, <2>1, <2>2, <2>3 DEF FinishGitOpsCluster
<1>26. ASSUME BeginCleanup PROVE TypeOK'
  BY <1>26 DEF BeginCleanup
<1>27. ASSUME DeleteOrphan PROVE TypeOK'
  <2>1. secrets' = secrets \/ secrets' = [secrets EXCEPT ![cluster][slot] = Gone]
    BY <1>27 DEF DeleteOrphan
  <2>2. [secrets EXCEPT ![cluster][slot] = Gone] \in [Clusters -> [Slots -> Secret]]
    BY SecretsUpdate, SecretValues
  <2>3. secrets' \in [Clusters -> [Slots -> Secret]]
    BY <2>1, <2>2
  <2>4. QED
    BY <1>27, <2>3, SecretValues DEF DeleteOrphan, ForgetCluster, Slots
<1>28. ASSUME EndPass PROVE TypeOK'
  BY <1>28 DEF EndPass, AfterPass
<1>29. QED
  BY <1>1, <1>2, <1>3, <1>4, <1>5, <1>6, <1>7, <1>8, <1>9, <1>10, <1>11, <1>12, <1>13, <1>14, <1>15, <1>16, <1>17, <1>18, <1>19, <1>20, <1>21, <1>22, <1>23, <1>24, <1>25, <1>26, <1>27, <1>28
  DEF Reconcile

\* A crash leaves the worker idle and every request queued.
LEMMA CrashType == TypeOK /\ Crash => TypeOK'
<1> SUFFICES ASSUME TypeOK, Crash PROVE TypeOK'
  OBVIOUS
<1>1. pc' = "idle" /\ pc' \in PCs /\ pc' \notin ImportPCs
  BY DEF Crash, PCs, ImportPCs
<1>2. plan' \in Plan /\ new' \in Secret
  BY SecretValues, PlanValues DEF Crash, ForgetCluster
<1>3. slot' \in Slots /\ old' \in Slots /\ olds' \subseteq Slots
  BY DEF Crash, ForgetCluster, Slots
<1>4. passFailed' \in BOOLEAN
  BY Zenon DEF Crash
<1>5. /\ queue' \subseteq Requests /\ orphans' \subseteq Clusters \X Slots
      /\ todo' \subseteq GitOpsClusters
      /\ absentInPass' \subseteq Clusters /\ steadyRefs' \subseteq refs
      /\ crashes' \in 0..MaxCrashes
  BY DEF Crash, TypeOK
<1>6. UNCHANGED <<envVars, secrets, registered, req, cluster, changes, listFaults, faults>>
  BY DEF Crash
<1>7. QED
  BY <1>1, <1>2, <1>3, <1>4, <1>5, <1>6 DEF TypeOK, envVars

\* The initial states have the types.
LEMMA InitType == Init => TypeOK
<1> SUFFICES ASSUME Init PROVE TypeOK
  OBVIOUS
<1>1. secrets \in [Clusters -> [Slots -> Secret]] /\ new \in Secret
  BY SecretValues DEF Init
<1>2. longLived \in [Clusters -> SUBSET {"plain", "msa"}]
  BY DEF Init
<1>3. pc \in PCs /\ pc \notin ImportPCs /\ plan \in Plan
  BY PlanValues DEF Init, PCs, ImportPCs
<1>4. spec \in [GitOpsClusters -> Specs] /\ token \in [Clusters -> Nat]
  BY DEF Init
<1>5. /\ access \in [Clusters -> SUBSET {"proxy", "direct"}]
      /\ registered \in [GitOpsClusters -> {"Unknown", "True", "False"}]
      /\ decisions \in [GitOpsClusters -> SUBSET Clusters]
  BY DEF Init
<1>6. slot \in Slots /\ old \in Slots /\ olds \subseteq Slots
  BY DEF Init, Slots
<1>7. proxyService \in BOOLEAN /\ passFailed \in BOOLEAN
  BY Zenon DEF Init
<1>8. /\ present \subseteq Clusters
      /\ longLived \in [Clusters -> SUBSET {"plain", "msa"}]
      /\ refs \subseteq Clusters \X {"proxyURL", "apiURL", "dummyURL"}
      /\ queue \subseteq Requests /\ req \in Requests /\ cluster \in Clusters
      /\ orphans \subseteq Clusters \X Slots /\ todo \subseteq GitOpsClusters
      /\ absentInPass \subseteq Clusters /\ steadyRefs \subseteq refs
  BY <1>2 DEF Init
<1>9. /\ changes \in 0..MaxChanges /\ faults \in 0..MaxFaults
      /\ listFaults \in 0..MaxListFaults /\ crashes \in 0..MaxCrashes
  BY DEF Init
<1>10. QED
  BY <1>1, <1>3, <1>4, <1>5, <1>6, <1>7, <1>8, <1>9 DEF TypeOK

\* Every reachable state has the types.
THEOREM TypeCorrect == Spec => []TypeOK
<1>1. TypeOK /\ UNCHANGED vars => TypeOK'
  BY DEF TypeOK, vars, envVars, passVars, clusterPc, history, bounds
<1>2. TypeOK /\ [Next]_vars => TypeOK'
  BY <1>1, EnvironmentType, ReconcileType, CrashType DEF Next
<1>3. QED
  BY InitType, <1>2, PTL DEF Spec

-----------------------------------------------------------------------------
\* Why a registered cluster stays registered.  From the write of the new secret to
\* the end of the clean-up of the others, that secret is there and is never the one
\* removed; the agent's secret is there when the blank ones go; and an orphan is
\* deleted only for a cluster seen without its ManagedCluster in this very pass.
CleanupPCs == {"longlived", "list", "old", "delabel", "delete", "relabel"}

NewSecretKept ==
  /\ pc \in CleanupPCs => slot # "user" /\ secrets[cluster][slot].typed
  /\ pc \in {"old", "delabel", "delete", "relabel"} => slot \notin olds
  /\ pc \in {"delabel", "delete", "relabel"} => old # slot
  /\ pc = "write" => slot # "user" /\ new.typed

AgentSecretKept ==
  pc = "blank" => /\ secrets[cluster]["agent"].typed
                  /\ secrets[cluster]["agent"].src = "agent"

AbsenceSeen ==
  /\ pc # "idle" => Clusters \ present \subseteq absentInPass
  /\ pc = "orphan" => cluster \in absentInPass

IInv == TypeOK /\ NewSecretKept /\ AgentSecretKept /\ AbsenceSeen

Strengthening == NewSecretKept /\ AgentSecretKept /\ AbsenceSeen

KeepsRegistered == \A c \in Clusters : Registered(c) => Registered(c)' \/ c \in absentInPass

\* A step of the environment touches no secret but the user's.
LEMMA EnvironmentKeeps == IInv /\ Environment => Strengthening' /\ KeepsRegistered
<1> SUFFICES ASSUME IInv, Environment PROVE Strengthening' /\ KeepsRegistered
  OBVIOUS
<1> USE DEF IInv, Change, EnvUnchanged, clusterPc, history, envVars
<1>1. UNCHANGED <<pc, cluster, slot, new, olds, old>>
  BY DEF Environment, DeleteManagedCluster, CreateManagedCluster, RotateToken, ChangeAccess,
         EditUserSecret, Decide, EditApplication, EditGitOpsCluster
<1>2. \A c \in Clusters, n \in Slots : n # "user" => secrets'[c][n] = secrets[c][n]
  <2>1. secrets' = secrets \/ \E d \in Clusters : EditUserSecret(d)
    BY Zenon DEF Environment, DeleteManagedCluster, CreateManagedCluster, RotateToken,
       ChangeAccess, Decide, EditApplication, EditGitOpsCluster
  <2>2. ASSUME NEW d \in Clusters, EditUserSecret(d),
               NEW c \in Clusters, NEW n \in Slots, n # "user"
        PROVE  secrets'[c][n] = secrets[c][n]
    BY <2>2 DEF EditUserSecret, TypeOK
  <2>3. QED
    BY <2>1, <2>2
<1>3. AbsenceSeen'
  BY <1>1 DEF AbsenceSeen, Environment, DeleteManagedCluster, CreateManagedCluster,
         RotateToken, ChangeAccess, EditUserSecret, Decide, EditApplication,
         EditGitOpsCluster
<1>4. QED
  BY <1>1, <1>2, <1>3
  DEF Strengthening, NewSecretKept, AgentSecretKept, CleanupPCs, KeepsRegistered, Registered,
      TypeOK, Slots

\* The worker adds before it removes.
LEMMA ReconcileKeeps == IInv /\ Reconcile => Strengthening' /\ KeepsRegistered
<1> SUFFICES ASSUME IInv, Reconcile PROVE Strengthening' /\ KeepsRegistered
  OBVIOUS
<1> USE DEF IInv, Strengthening, KeepsRegistered, NewSecretKept, AgentSecretKept, AbsenceSeen,
            CleanupPCs, passVars, clusterPc, history, bounds, envVars
<1>1. ASSUME NEW r \in Requests, Begin(r) PROVE Strengthening' /\ KeepsRegistered
  BY <1>1 DEF Begin, Registered
<1>2. ASSUME NEW r \in Requests, BeginFails(r) PROVE Strengthening' /\ KeepsRegistered
  BY <1>2 DEF BeginFails, Registered
<1>3. ASSUME NEW g \in GitOpsClusters, SkipGitOpsCluster(g) PROVE Strengthening' /\ KeepsRegistered
  BY <1>3 DEF SkipGitOpsCluster, Registered
<1>4. ASSUME NEW g \in GitOpsClusters, StartFails(g) PROVE Strengthening' /\ KeepsRegistered
  BY <1>4 DEF StartFails, Registered
<1>5. ASSUME NEW g \in GitOpsClusters, Start(g) PROVE Strengthening' /\ KeepsRegistered
  BY <1>5 DEF Start, Registered
<1>6. ASSUME ImportFails PROVE Strengthening' /\ KeepsRegistered
  BY <1>6 DEF ImportFails, Registered
<1>7. ASSUME BeginImport PROVE Strengthening' /\ KeepsRegistered
  BY <1>7 DEF BeginImport, Registered
<1>8. ASSUME NEW c \in Clusters, PushSkips(c) PROVE Strengthening' /\ KeepsRegistered
  BY <1>8 DEF PushSkips, Registered
<1>9. ASSUME NEW c \in Clusters, NEW src \in Sources, PushBuild(c, src) PROVE Strengthening' /\ KeepsRegistered
  <2>1. slot' # "user"
    BY <1>9 DEF PushBuild, SlotFor, TypeOK, Plan
  <2>2. new'.typed
    <3>1. new' = [src |-> src, token |-> TokenFor(c, src), typed |-> TRUE]
      BY <1>9, Zenon DEF PushBuild
    <3>2. QED
      BY <3>1
  <2>3. pc' = "write" /\ pc = "pick" /\ UNCHANGED <<envVars, secrets, history>>
    BY <1>9 DEF PushBuild
  <2>4. QED
    BY <2>1, <2>2, <2>3 DEF Registered
<1>10. ASSUME NEW c \in Clusters, AgentWrite(c) PROVE Strengthening' /\ KeepsRegistered
  BY <1>10 DEF AgentWrite, Registered, TypeOK, Slots
<1>11. ASSUME NEW c \in Clusters, AgentSkips(c) PROVE Strengthening' /\ KeepsRegistered
  BY <1>11 DEF AgentSkips, Registered
<1>12. ASSUME NEW c \in Clusters, NEW n \in Slots, KeepOrphan(c, n) PROVE Strengthening' /\ KeepsRegistered
  BY <1>12 DEF KeepOrphan, Registered
<1>13. ASSUME NEW c \in Clusters, NEW n \in Slots, CheckOrphan(c, n) PROVE Strengthening' /\ KeepsRegistered
  BY <1>13 DEF CheckOrphan, Deletable, Registered
<1>14. ASSUME PushWrite PROVE Strengthening' /\ KeepsRegistered
  BY <1>14 DEF PushWrite, Secret, Registered, TypeOK, Slots
<1>15. ASSUME PushWriteFails PROVE Strengthening' /\ KeepsRegistered
  BY <1>15 DEF PushWriteFails, ForgetCluster, Registered
<1>16. ASSUME CleanupOldClusterSecrets PROVE Strengthening' /\ KeepsRegistered
  BY <1>16 DEF CleanupOldClusterSecrets, Registered
<1>17. ASSUME ListOld PROVE Strengthening' /\ KeepsRegistered
  BY <1>17 DEF ListOld, OtherNames, Registered
<1>18. ASSUME NEW n \in Slots, KeepOld(n) PROVE Strengthening' /\ KeepsRegistered
  BY <1>18 DEF KeepOld, Registered
<1>19. ASSUME NEW n \in Slots, CheckOld(n) PROVE Strengthening' /\ KeepsRegistered
  BY <1>19 DEF CheckOld, Registered
<1>20. ASSUME Delabel PROVE Strengthening' /\ KeepsRegistered
  BY <1>20 DEF Delabel, Registered, TypeOK, Slots
<1>21. ASSUME DeleteOld PROVE Strengthening' /\ KeepsRegistered
  <2>1. secrets' = secrets \/ secrets' = [secrets EXCEPT ![cluster][old] = Gone]
    BY <1>21 DEF DeleteOld
  <2>2. secrets'[cluster][slot] = secrets[cluster][slot]
    BY <1>21, <2>1 DEF DeleteOld, TypeOK
  <2>3. \A c \in Clusters \ {cluster} : secrets'[c] = secrets[c]
    BY <2>1 DEF TypeOK
  <2>4. /\ pc = "delete" /\ pc' \in {"old", "relabel"}
        /\ UNCHANGED <<present, cluster, slot, new, olds, old, absentInPass>>
    BY <1>21 DEF DeleteOld
  <2>5. Registered(cluster)'
    BY <2>2, <2>4 DEF Registered, TypeOK
  <2>6. \A c \in Clusters \ {cluster} : Registered(c) => Registered(c)'
    BY <2>3 DEF Registered
  <2>7. QED
    BY <2>2, <2>4, <2>5, <2>6
<1>22. ASSUME Relabel PROVE Strengthening' /\ KeepsRegistered
  <2>1. /\ pc = "relabel" /\ pc' = "old"
        /\ UNCHANGED <<present, cluster, slot, new, olds, old, absentInPass>>
    BY <1>22 DEF Relabel
  <2>2. secrets' = secrets \/ secrets' = [secrets EXCEPT ![cluster][old] = Relabelled(@)]
    BY <1>22 DEF Relabel
  <2>3. /\ secrets'[cluster][slot] = secrets[cluster][slot]
        /\ \A c \in Clusters \ {cluster} : secrets'[c] = secrets[c]
    BY <2>1, <2>2 DEF TypeOK
  <2>4. Registered(cluster)'
    BY <2>1, <2>3 DEF Registered, TypeOK
  <2>5. \A c \in Clusters \ {cluster} : Registered(c) => Registered(c)'
    BY <2>3 DEF Registered
  <2>6. QED
    BY <2>1, <2>3, <2>4, <2>5
<1>23. ASSUME FinishCluster PROVE Strengthening' /\ KeepsRegistered
  BY <1>23 DEF FinishCluster, ForgetCluster, Registered
<1>24. ASSUME DeleteBlankClusterSecrets PROVE Strengthening' /\ KeepsRegistered
  BY <1>24 DEF DeleteBlankClusterSecrets, BlankNames, Registered, TypeOK, Slots
<1>25. ASSUME FinishGitOpsCluster PROVE Strengthening' /\ KeepsRegistered
  BY <1>25 DEF FinishGitOpsCluster, Registered
<1>26. ASSUME BeginCleanup PROVE Strengthening' /\ KeepsRegistered
  BY <1>26 DEF BeginCleanup, Registered
<1>27. ASSUME DeleteOrphan PROVE Strengthening' /\ KeepsRegistered
  BY <1>27 DEF DeleteOrphan, ForgetCluster, Registered, TypeOK, Slots
<1>28. ASSUME EndPass PROVE Strengthening' /\ KeepsRegistered
  BY <1>28 DEF EndPass, Registered
<1>29. QED
  BY <1>1, <1>2, <1>3, <1>4, <1>5, <1>6, <1>7, <1>8, <1>9, <1>10, <1>11, <1>12, <1>13, <1>14, <1>15, <1>16, <1>17, <1>18, <1>19, <1>20, <1>21, <1>22, <1>23, <1>24, <1>25, <1>26, <1>27, <1>28
  DEF Reconcile

\* After a crash nothing is being imported.
LEMMA CrashKeeps == IInv /\ Crash => Strengthening' /\ KeepsRegistered
  BY DEF Crash, Strengthening, KeepsRegistered, NewSecretKept, AgentSecretKept, AbsenceSeen,
         CleanupPCs, Registered

\* The strengthened invariant is inductive.
THEOREM InductiveInvariant == Spec => []IInv
<1>1. Init => IInv
  BY InitType DEF Init, IInv, NewSecretKept, AgentSecretKept, AbsenceSeen, CleanupPCs
<1>2. IInv /\ UNCHANGED vars => Strengthening'
  BY DEF IInv, Strengthening, NewSecretKept, AgentSecretKept, AbsenceSeen, CleanupPCs, vars,
         envVars, clusterPc, history
<1>3. IInv /\ [Next]_vars => Strengthening'
  BY <1>2, EnvironmentKeeps, ReconcileKeeps, CrashKeeps DEF Next
<1>4. TypeOK /\ [Next]_vars => TypeOK'
  BY EnvironmentType, ReconcileType, CrashType
  DEF Next, TypeOK, vars, envVars, passVars, clusterPc, history, bounds
<1>5. IInv /\ [Next]_vars => IInv'
  BY <1>3, <1>4 DEF IInv, Strengthening
<1>6. QED
  BY <1>1, <1>5, PTL DEF Spec

\* While its secrets are renamed, replaced, de-labelled and swept, a cluster whose
\* ManagedCluster was there for the whole pass never disappears from Argo CD.
THEOREM RegisteredStaysAlways == Spec => RegisteredStays
<1>1. IInv /\ [Next]_vars => [KeepsRegistered]_vars
  BY EnvironmentKeeps, ReconcileKeeps, CrashKeeps DEF Next
<1>2. QED
  BY <1>1, InductiveInvariant, PTL DEF Spec, RegisteredStays, KeepsRegistered

-----------------------------------------------------------------------------
(* What the worker may rely on while it cleans up after the write of a new secret. *)

PushNames == {"plain", "msa", "custom"}
PushPCs   == CleanupPCs \cup {"write"}

\* A secret is there, but no later list shows it.
Stranded(c, n) == secrets[c][n].src # "none" /\ ~secrets[c][n].typed

\* Until two calls failed or the pod died, the only stranded secret is the one at hand.
OneStranded ==
  /\ pc = "relabel" => faults > 0
  /\ crashes = 0 /\ faults < 2 =>
       \A c \in Clusters, n \in Slots :
         Stranded(c, n) => pc \in {"delete", "relabel"} /\ c = cluster /\ n = old

\* A user's secret never has the ACM label, so no clean-up of another secret meets it.
UserApart ==
  /\ \A c \in Clusters : ~Acm(secrets[c]["user"])
  /\ pc \in {"old", "delabel", "delete", "relabel"} => "user" \notin olds
  /\ pc \in {"delabel", "delete", "relabel"} => old # "user"

\* What was checked of the old secret still holds when it is de-labelled, and deleted.
OldUnused ==
  /\ pc = "delabel" =>
       \/ <<cluster, ServerOf(secrets[cluster][old])>> \notin steadyRefs
       \/ ServerOf(new) = ServerOf(secrets[cluster][old])
  /\ pc = "delete" => ~secrets[cluster][old].typed

\* The mode a pass read decides what it writes to the very end.
ModeKept ==
  /\ pc \in ImportPCs => plan.mode # "absent"
  /\ pc = "blank" => plan.mode = "agent"
  /\ pc \in PushPCs => /\ plan.mode \in {"push", "blank"} /\ cluster \in plan.left
                       /\ slot \in PushNames
                       /\ new.src = "blank" <=> plan.mode = "blank"
  /\ pc \in CleanupPCs => secrets[cluster][slot] = new

\* c has a visible secret with credentials of that mode.
HasSecretOf(c, mode) == \E n \in PushNames : /\ secrets[c][n].typed
                                             /\ mode = "blank" <=> secrets[c][n].src = "blank"

\* Clusters are struck off the plan with a failure, or with such a secret.
ImportedSoFar ==
  pc \in ImportPCs /\ plan.mode # "agent" /\ ~plan.failed =>
    \A c \in plan.all \ plan.left : HasSecretOf(c, plan.mode)

Evidence == OneStranded /\ UserApart /\ OldUnused /\ ModeKept /\ ImportedSoFar

\* The ways a step of the worker changes the secret of cluster c with name n.
Written(c, n)   == PushWrite /\ c = cluster /\ n = slot /\ secrets'[c][n] = new
Registers(c, n) == /\ AgentWrite(c) /\ n = "agent"
                   /\ secrets'[c][n] = [src |-> "agent", token |-> 0, typed |-> TRUE]
Hides(c, n)     == /\ Delabel /\ pc' = "delete" /\ c = cluster /\ n = old
                   /\ secrets'[c][n] = [secrets[c][n] EXCEPT !.typed = FALSE]
Restores(c, n)  == /\ Relabel /\ c = cluster /\ n = old
                   /\ secrets'[c][n] = [secrets[c][n] EXCEPT !.typed = TRUE]
Removes(c, n)   == /\ secrets'[c][n] = Gone /\ c = cluster
                   /\ \/ DeleteOld /\ n = old
                      \/ DeleteOrphan /\ n = slot
                      \/ DeleteBlankClusterSecrets
Kept(c, n)      == secrets'[c][n] = secrets[c][n]

\* They are all the ways there are.
LEMMA SecretsEffect ==
  ASSUME IInv, Reconcile, NEW c \in Clusters, NEW n \in Slots
  PROVE  \/ Kept(c, n) \/ Written(c, n) \/ Registers(c, n) \/ Hides(c, n) \/ Restores(c, n)
         \/ Removes(c, n)
<1> USE DEF IInv, TypeOK
<1>1. \/ UNCHANGED secrets \/ PushWrite \/ (\E d \in Clusters : AgentWrite(d))
      \/ Delabel \/ DeleteOld \/ Relabel \/ DeleteBlankClusterSecrets \/ DeleteOrphan
  BY Zenon DEF Reconcile, Begin, BeginFails, SkipGitOpsCluster, StartFails, Start, ImportFails,
     BeginImport, PushSkips, PushBuild, AgentSkips, KeepOrphan, CheckOrphan, PushWriteFails,
     CleanupOldClusterSecrets, ListOld, KeepOld, CheckOld, FinishCluster, FinishGitOpsCluster,
     BeginCleanup, EndPass
<1>2. CASE UNCHANGED secrets
  BY <1>2 DEF Kept
<1>3. CASE PushWrite
  BY <1>3 DEF PushWrite, Written, Kept
<1>4. ASSUME NEW d \in Clusters, AgentWrite(d) PROVE Kept(c, n) \/ Registers(c, n)
  <2>1. secrets' = [secrets EXCEPT ![d]["agent"] = [src |-> "agent", token |-> 0, typed |-> TRUE]]
    BY <1>4, Zenon DEF AgentWrite
  <2>2. CASE c = d /\ n = "agent"
    BY <1>4, <2>1, <2>2 DEF Registers
  <2>3. CASE ~(c = d /\ n = "agent")
    BY <2>1, <2>3 DEF Kept
  <2> QED BY <2>2, <2>3
<1>5. CASE Delabel
  <2>1. \/ UNCHANGED secrets
        \/ pc' = "delete" /\ secrets' = [secrets EXCEPT ![cluster][old].typed = FALSE]
    BY <1>5 DEF Delabel
  <2>2. CASE c = cluster /\ n = old
    <3>1. CASE secrets' = [secrets EXCEPT ![cluster][old].typed = FALSE]
      <4>1. secrets'[c][n] = [secrets[c][n] EXCEPT !.typed = FALSE]
        BY <2>2, <3>1
      <4> QED BY <1>5, <2>1, <2>2, <4>1, Zenon DEF Hides, Kept
    <3> QED BY <2>1, <3>1 DEF Kept
  <2>3. CASE ~(c = cluster /\ n = old)
    BY <2>1, <2>3 DEF Kept
  <2> QED BY <2>2, <2>3
<1>6. CASE Relabel
  <2>1. UNCHANGED secrets \/ secrets' = [secrets EXCEPT ![cluster][old].typed = TRUE]
    BY <1>6 DEF Relabel, Relabelled
  <2>2. CASE c = cluster /\ n = old
    <3>1. CASE secrets' = [secrets EXCEPT ![cluster][old].typed = TRUE]
      <4>1. secrets'[c][n] = [secrets[c][n] EXCEPT !.typed = TRUE]
        BY <2>2, <3>1
      <4> QED BY <1>6, <2>2, <4>1, Zenon DEF Restores
    <3> QED BY <2>1, <3>1 DEF Kept
  <2>3. CASE ~(c = cluster /\ n = old)
    BY <2>1, <2>3 DEF Kept
  <2> QED BY <2>2, <2>3
<1>7. CASE DeleteOld
  BY <1>7 DEF DeleteOld, Removes, Kept
<1>8. CASE DeleteOrphan
  BY <1>8 DEF DeleteOrphan, Removes, Kept
<1>9. CASE DeleteBlankClusterSecrets
  <2>1. PICK done : secrets' = [secrets EXCEPT ![cluster] = [m \in Slots |-> IF m \in done THEN Gone ELSE @[m]]]
    BY <1>9, Zenon DEF DeleteBlankClusterSecrets
  <2>2. CASE c = cluster /\ n \in done
    BY <1>9, <2>1, <2>2 DEF Removes
  <2>3. CASE ~(c = cluster /\ n \in done)
    BY <2>1, <2>3 DEF Kept
  <2> QED BY <2>2, <2>3
<1> QED BY <1>1, <1>2, <1>3, <1>4, <1>5, <1>6, <1>7, <1>8, <1>9

OldPCs == {"old", "delabel", "delete", "relabel"}

\* How the worker gets into, and through, the clean-up of the other secrets.
LEMMA OldMoves ==
  ASSUME Reconcile
  PROVE  /\ pc' \in OldPCs => \/ ListOld \/ Delabel \/ DeleteOld \/ Relabel
                              \/ \E n \in Slots : KeepOld(n) \/ CheckOld(n)
         /\ pc \in OldPCs => \/ Delabel \/ DeleteOld \/ Relabel \/ FinishCluster
                             \/ \E n \in Slots : KeepOld(n) \/ CheckOld(n)
<1> USE DEF OldPCs
<1>1. ASSUME NEW r \in Requests, Begin(r) \/ BeginFails(r) PROVE pc' \notin OldPCs /\ pc \notin OldPCs
  BY <1>1 DEF Begin, BeginFails
<1>2. ASSUME NEW g \in GitOpsClusters, SkipGitOpsCluster(g) \/ StartFails(g) \/ Start(g)
      PROVE  pc' \notin OldPCs /\ pc \notin OldPCs
  BY <1>2 DEF SkipGitOpsCluster, StartFails, Start
<1>3. ASSUME NEW c \in Clusters, PushSkips(c) \/ (\E src \in Sources : PushBuild(c, src)) \/ AgentWrite(c)
             \/ AgentSkips(c) \/ \E n \in Slots : KeepOrphan(c, n) \/ CheckOrphan(c, n)
      PROVE  pc' \notin OldPCs /\ pc \notin OldPCs
  BY <1>3 DEF PushSkips, PushBuild, AgentWrite, AgentSkips, KeepOrphan, CheckOrphan
<1>4. ASSUME \/ ImportFails \/ BeginImport \/ PushWrite \/ PushWriteFails \/ CleanupOldClusterSecrets
             \/ DeleteBlankClusterSecrets \/ FinishGitOpsCluster \/ BeginCleanup \/ DeleteOrphan \/ EndPass
      PROVE  pc' \notin OldPCs /\ pc \notin OldPCs
  BY <1>4 DEF ImportFails, BeginImport, PushWrite, PushWriteFails, CleanupOldClusterSecrets,
     DeleteBlankClusterSecrets, FinishGitOpsCluster, BeginCleanup, DeleteOrphan, EndPass
<1>5. ListOld => pc \notin OldPCs
  BY DEF ListOld
<1>6. FinishCluster => pc' \notin OldPCs
  BY DEF FinishCluster
<1> QED BY <1>1, <1>2, <1>3, <1>4, <1>5, <1>6, Zenon DEF Reconcile

\* Failed calls and crashes are only ever added.
LEMMA FailuresStay ==
  ASSUME TypeOK, [Next]_vars
  PROVE  faults \in Nat /\ faults' \in Nat /\ faults <= faults' /\ crashes \in Nat
         /\ (crashes' = 0 => crashes = 0 /\ ~Crash)
<1>1. faults \in Nat /\ crashes \in Nat
  BY DEF TypeOK
<1>2. UNCHANGED faults \/ faults' = faults + 1
  BY Zenon DEF Next, Environment, DeleteManagedCluster, CreateManagedCluster, RotateToken, ChangeAccess,
     EditUserSecret, Decide, EditApplication, EditGitOpsCluster, EnvUnchanged, Fault, Succeed, vars,
     Reconcile, Begin, BeginFails, SkipGitOpsCluster, StartFails, Start, ImportFails,
     BeginImport, PushSkips, PushBuild, Chosen, AgentWrite, AgentSkips, KeepOrphan, CheckOrphan, PushWrite,
     PushWriteFails, CleanupOldClusterSecrets, ListOld, KeepOld, CheckOld, Delabel, DeleteOld, Relabel,
     FinishCluster, DeleteBlankClusterSecrets, FinishGitOpsCluster, BeginCleanup, DeleteOrphan, EndPass, Crash
<1>3. UNCHANGED crashes \/ (Crash /\ crashes' = crashes + 1)
  BY Zenon DEF Next, Environment, DeleteManagedCluster, CreateManagedCluster, RotateToken, ChangeAccess,
     EditUserSecret, Decide, EditApplication, EditGitOpsCluster, EnvUnchanged, bounds, vars,
     Reconcile, Begin, BeginFails, SkipGitOpsCluster, StartFails, Start, ImportFails,
     BeginImport, PushSkips, PushBuild, AgentWrite, AgentSkips, KeepOrphan, CheckOrphan, PushWrite,
     PushWriteFails, CleanupOldClusterSecrets, ListOld, KeepOld, CheckOld, Delabel, DeleteOld, Relabel,
     FinishCluster, DeleteBlankClusterSecrets, FinishGitOpsCluster, BeginCleanup, DeleteOrphan, EndPass, Crash
<1>4. crashes' = 0 => ~Crash
  BY <1>1 DEF Crash
<1> QED BY <1>1, <1>2, <1>3, <1>4

\* A secret that is stranded was stranded, or is being de-labelled.
LEMMA StrandedStep == IInv /\ Evidence /\ [Next]_vars => OneStranded'
<1> SUFFICES ASSUME IInv, Evidence, [Next]_vars PROVE OneStranded'
  OBVIOUS
<1>1. CASE Environment \/ UNCHANGED vars
  <2>1. UNCHANGED <<pc, cluster, old, faults, crashes>>
    BY <1>1, Zenon DEF Environment, DeleteManagedCluster, CreateManagedCluster, RotateToken,
       ChangeAccess, EditUserSecret, Decide, EditApplication, EditGitOpsCluster, EnvUnchanged,
       clusterPc, vars, bounds
  <2>2. ASSUME NEW c \in Clusters, NEW n \in Slots, Stranded(c, n)' PROVE Stranded(c, n)
    <3>1. UNCHANGED secrets \/ \E d \in Clusters : EditUserSecret(d)
      BY <1>1, Zenon DEF Environment, DeleteManagedCluster, CreateManagedCluster, RotateToken,
         ChangeAccess, Decide, EditApplication, EditGitOpsCluster, vars
    <3>2. ASSUME NEW d \in Clusters, EditUserSecret(d) PROVE Stranded(c, n)
      BY <2>2, <3>2 DEF EditUserSecret, Stranded, IInv, TypeOK, Gone
    <3> QED BY <2>2, <3>1, <3>2 DEF Stranded
  <2> QED BY <2>1, <2>2 DEF Evidence, OneStranded
<1>2. CASE Crash
  <2>1. crashes' # 0 /\ pc' = "idle"
    BY <1>2, FailuresStay DEF Crash, IInv
  <2> QED BY <2>1 DEF OneStranded
<1>3. CASE Reconcile
  <2>1. faults \in Nat /\ faults' \in Nat /\ faults <= faults' /\ (crashes' = 0 => crashes = 0)
    BY FailuresStay DEF IInv
  <2>2. pc' = "relabel" => faults' > 0
    <3> SUFFICES ASSUME pc' = "relabel" PROVE faults' > 0
      OBVIOUS
    <3>1. CASE pc = "relabel"
      BY <2>1, <3>1 DEF Evidence, OneStranded
    <3>2. CASE DeleteOld
      BY <2>1, <3>2 DEF DeleteOld, Fault
    <3>3. pc = "relabel" \/ DeleteOld
      BY <1>3, OldMoves DEF OldPCs, ListOld, Delabel, Relabel, KeepOld, CheckOld
    <3> QED BY <3>1, <3>2, <3>3
  <2>3. ASSUME crashes' = 0, faults' < 2, NEW c \in Clusters, NEW n \in Slots, Stranded(c, n)'
        PROVE  pc' \in {"delete", "relabel"} /\ c = cluster' /\ n = old'
    <3>1. CASE Hides(c, n)
      BY <3>1 DEF Hides, Delabel, clusterPc
    <3>2. Stranded(c, n) \/ Hides(c, n)
      <4>1. new.typed \/ ~PushWrite
        BY DEF PushWrite, IInv, NewSecretKept
      <4>2. secrets[c][n] \in Secret
        BY DEF IInv, TypeOK
      <4>3. CASE Kept(c, n)
        BY <2>3, <4>3 DEF Stranded, Kept
      <4>4. CASE Written(c, n) \/ Registers(c, n) \/ Removes(c, n)
        BY <2>3, <4>1, <4>4 DEF Stranded, Written, Registers, Removes, Gone
      <4>5. CASE Restores(c, n)
        BY <2>3, <4>2, <4>5 DEF Stranded, Restores, Secret
      <4> QED BY <1>3, <4>3, <4>4, <4>5, SecretsEffect
    <3>3. CASE Stranded(c, n)
      <4>1. pc \in {"delete", "relabel"} /\ c = cluster /\ n = old
        BY <2>1, <2>3, <3>3 DEF Evidence, OneStranded
      <4>2. DeleteOld \/ Relabel
        BY <1>3, <4>1, OldMoves DEF OldPCs, Delabel, FinishCluster, KeepOld, CheckOld
      <4>3. CASE DeleteOld
        <5>1. secrets' # [secrets EXCEPT ![cluster][old] = Gone]
          BY <2>3, <4>1 DEF Stranded, Gone, IInv, TypeOK
        <5> QED BY <4>1, <4>3, <5>1 DEF DeleteOld, clusterPc
      <4>4. CASE Relabel
        <5>1. faults > 0
          BY <4>4 DEF Relabel, Evidence, OneStranded
        <5>2. secrets' = [secrets EXCEPT ![cluster][old].typed = TRUE]
          BY <2>1, <2>3, <4>4, <5>1 DEF Relabel, Relabelled, Fault
        <5>3. secrets'[c][n].typed
          BY <4>1, <5>2 DEF IInv, TypeOK, Secret
        <5> QED BY <2>3, <5>3 DEF Stranded
      <4> QED BY <4>2, <4>3, <4>4
    <3> QED BY <3>1, <3>2, <3>3
  <2> QED BY <2>2, <2>3 DEF OneStranded
<1> QED BY <1>1, <1>2, <1>3 DEF Next

\* The environment: users write only their own secrets, and leave the worker alone.
LEMMA EnvironmentLeaves ==
  ASSUME IInv, Evidence, Environment
  PROVE  /\ UNCHANGED <<pc, cluster, slot, new, olds, old, plan>>
         /\ \A c \in Clusters, n \in Slots : n # "user" => secrets'[c][n] = secrets[c][n]
         /\ \A c \in Clusters : ~Acm(secrets'[c]["user"])
         /\ steadyRefs' \subseteq steadyRefs
<1>1. UNCHANGED <<pc, cluster, slot, new, olds, old, plan>>
  BY Zenon DEF Environment, DeleteManagedCluster, CreateManagedCluster, RotateToken,
     ChangeAccess, EditUserSecret, Decide, EditApplication, EditGitOpsCluster, EnvUnchanged, clusterPc
<1>2. UNCHANGED secrets \/ \E d \in Clusters : EditUserSecret(d)
  BY Zenon DEF Environment, DeleteManagedCluster, CreateManagedCluster, RotateToken,
     ChangeAccess, Decide, EditApplication, EditGitOpsCluster
<1>3. \A c \in Clusters : ~Acm(secrets[c]["user"])
  BY DEF Evidence, UserApart
<1>4. ASSUME NEW d \in Clusters, EditUserSecret(d), NEW c \in Clusters
      PROVE  /\ \A n \in Slots : n # "user" => secrets'[c][n] = secrets[c][n]
             /\ ~Acm(secrets'[c]["user"])
  <2>1. PICK s \in {[src |-> "user", token |-> 0, typed |-> TRUE], Gone} :
          secrets' = [secrets EXCEPT ![d]["user"] = s]
    BY <1>4 DEF EditUserSecret
  <2>2. ~Acm(s)
    BY DEF Acm, Gone
  <2>3. "user" \in Slots
    BY DEF Slots
  <2> HIDE DEF Acm
  <2> QED BY <1>3, <2>1, <2>2, <2>3 DEF IInv, TypeOK
<1>5. steadyRefs' \subseteq steadyRefs
  <2>1. UNCHANGED steadyRefs \/ \E r : steadyRefs' = steadyRefs \ r
    BY Zenon DEF Environment, DeleteManagedCluster, CreateManagedCluster, RotateToken,
       ChangeAccess, EditUserSecret, Decide, EditApplication, EditGitOpsCluster, history
  <2> QED BY <2>1
<1> QED BY <1>1, <1>2, <1>3, <1>4, <1>5

\* No user's secret gets the ACM label, and none is among the ones to clean up.
LEMMA UserApartStep ==
  ASSUME IInv, Evidence, Reconcile
  PROVE  UserApart'
<1>1. ASSUME NEW c \in Clusters PROVE ~Acm(secrets'[c]["user"])
  <2>1. "user" \in Slots /\ secrets[c]["user"] \in Secret /\ ~Acm(secrets[c]["user"])
    BY DEF Slots, IInv, TypeOK, Evidence, UserApart
  <2>2. ~Written(c, "user") /\ ~Registers(c, "user")
    BY DEF Written, PushWrite, Registers, IInv, NewSecretKept
  <2>3. \/ secrets'[c]["user"] = secrets[c]["user"] \/ secrets'[c]["user"] = Gone
        \/ secrets'[c]["user"] = [secrets[c]["user"] EXCEPT !.typed = TRUE]
        \/ secrets'[c]["user"] = [secrets[c]["user"] EXCEPT !.typed = FALSE]
    BY <2>1, <2>2, SecretsEffect, Zenon DEF Kept, Hides, Restores, Removes
  <2>4. secrets'[c]["user"].src \in {secrets[c]["user"].src, "none"}
    BY <2>1, <2>3 DEF Gone, Secret
  <2> QED BY <2>1, <2>4 DEF Acm
<1>2. CASE ListOld
  <2>1. "user" \notin olds'
    BY <1>2 DEF ListOld, OtherNames, Evidence, UserApart, IInv, TypeOK
  <2> QED BY <1>1, <1>2, <2>1 DEF UserApart, ListOld
<1>3. ASSUME NEW n \in Slots, KeepOld(n) \/ CheckOld(n) PROVE UserApart'
  BY <1>1, <1>3 DEF KeepOld, CheckOld, Evidence, UserApart
<1>4. CASE Delabel \/ DeleteOld \/ Relabel
  <2>1. UNCHANGED <<olds, old>> /\ pc \in {"delabel", "delete", "relabel"}
    BY <1>4 DEF Delabel, DeleteOld, Relabel, clusterPc
  <2> QED BY <1>1, <2>1 DEF Evidence, UserApart
<1>5. CASE pc' \notin OldPCs
  BY <1>1, <1>5 DEF UserApart, OldPCs
<1> QED BY <1>2, <1>3, <1>4, <1>5, OldMoves

\* The check and what follows it are of the same secret, which nobody else changes.
LEMMA OldUnusedStep ==
  ASSUME IInv, Evidence, Reconcile
  PROVE  OldUnused'
<1>1. CASE pc' = "delabel"
  <2>1. PICK n \in Slots : CheckOld(n)
    BY <1>1, OldMoves DEF OldPCs, ListOld, Delabel, DeleteOld, Relabel, KeepOld
  <2>2. /\ ~Keeps(n) /\ old' = n /\ UNCHANGED <<secrets, cluster, new, steadyRefs>>
    BY <2>1, Zenon DEF CheckOld, history
  <2>3. steadyRefs \subseteq refs
    BY DEF IInv, TypeOK
  <2> QED BY <1>1, <2>2, <2>3 DEF OldUnused, Keeps
<1>2. CASE pc' = "delete"
  <2>1. Delabel
    BY <1>2, OldMoves DEF OldPCs, ListOld, DeleteOld, Relabel, KeepOld, CheckOld
  <2>2. secrets' = [secrets EXCEPT ![cluster][old].typed = FALSE] /\ UNCHANGED <<cluster, old>>
    BY <1>2, <2>1 DEF Delabel, clusterPc
  <2>3. ~secrets'[cluster][old].typed
    BY <2>2 DEF IInv, TypeOK, Secret
  <2> QED BY <1>2, <2>2, <2>3 DEF OldUnused
<1> QED BY <1>1, <1>2 DEF OldUnused

\* The secrets that carry a visible credential stay while others of the cluster go: a step of
\* the worker changes no named secret but that of the cluster it imports, and none to hidden
\* in blank mode's agent clean-up.
LEMMA NamedStay ==
  ASSUME IInv, Evidence, Reconcile, pc \in ImportPCs, plan.mode # "agent",
         NEW c \in Clusters, NEW n \in PushNames, secrets'[c][n] # secrets[c][n]
  PROVE  /\ c = cluster /\ cluster \in plan.left /\ pc \in PushPCs
         /\ n = slot => PushWrite /\ secrets'[c][n] = new
<1>1. n \in Slots /\ n # "agent"
  BY DEF PushNames, Slots
<1>2. ~Kept(c, n) /\ ~Registers(c, n)
  BY <1>1 DEF Kept, Registers
<1>3. pc # "blank" /\ pc # "orphan"
  BY DEF Evidence, ModeKept, ImportPCs
<1>4. CASE Written(c, n)
  BY <1>4 DEF Written, PushWrite, Evidence, ModeKept, PushPCs
<1>5. CASE Hides(c, n) \/ Restores(c, n)
  BY <1>5 DEF Hides, Restores, Delabel, Relabel, Evidence, ModeKept, PushPCs, CleanupPCs, IInv, NewSecretKept
<1>6. CASE Removes(c, n)
  BY <1>3, <1>6 DEF Removes, DeleteOld, DeleteOrphan, DeleteBlankClusterSecrets, Evidence, ModeKept,
     PushPCs, CleanupPCs, IInv, NewSecretKept
<1> QED BY <1>1, <1>2, <1>4, <1>5, <1>6, SecretsEffect

\* A plan is struck off, marked or finished: the mode stays.
LEMMA PlanMode ==
  ASSUME NEW p \in Plan, NEW c
  PROVE  /\ [p EXCEPT !.left = @ \ {c}].mode = p.mode
         /\ [p EXCEPT !.left = @ \ {c}].all = p.all
         /\ [p EXCEPT !.left = @ \ {c}].failed = p.failed
         /\ [p EXCEPT !.left = @ \ {c}].left = p.left \ {c}
         /\ [p EXCEPT !.left = @ \ {c}, !.failed = TRUE].mode = p.mode
         /\ [p EXCEPT !.left = @ \ {c}, !.failed = TRUE].failed = TRUE
BY DEF Plan

\* Every step of an import keeps to the mode it began with, and to the secret it wrote.
LEMMA ModeKeptStep ==
  ASSUME IInv, Evidence, Reconcile
  PROVE  ModeKept'
<1> USE DEF ImportPCs, PushPCs, CleanupPCs
<1>0. plan \in Plan /\ cluster \in Clusters /\ slot \in Slots
  BY DEF IInv, TypeOK
<1>1. CASE pc' \notin ImportPCs
  BY <1>1 DEF ModeKept
<1>2. ASSUME NEW g \in GitOpsClusters, Start(g) PROVE ModeKept'
  <2>1. pc' = "import" /\ plan'.mode = spec[g].mode /\ spec[g].mode # "absent"
    BY <1>2 DEF Start
  <2> QED BY <2>1 DEF ModeKept
<1>3. CASE BeginImport
  <2>1. pc = "import" /\ pc' = "pick" /\ plan'.mode = plan.mode
    BY <1>0, <1>3 DEF BeginImport, Plan
  <2> QED BY <2>1 DEF Evidence, ModeKept
<1>4. ASSUME NEW c \in Clusters, PushSkips(c) \/ AgentSkips(c) PROVE ModeKept'
  <2>1. /\ pc = "pick" /\ pc' = "pick"
        /\ \/ plan' = [plan EXCEPT !.left = @ \ {c}]
           \/ plan' = [plan EXCEPT !.left = @ \ {c}, !.failed = TRUE]
    BY <1>4, Zenon DEF PushSkips, AgentSkips
  <2>2. plan'.mode = plan.mode
    <3>1. CASE plan' = [plan EXCEPT !.left = @ \ {c}]
      BY <1>0, <3>1 DEF Plan
    <3>2. CASE plan' = [plan EXCEPT !.left = @ \ {c}, !.failed = TRUE]
      BY <1>0, <3>2 DEF Plan
    <3> QED BY <2>1, <3>1, <3>2
  <2> QED BY <2>1, <2>2 DEF Evidence, ModeKept
<1>5. ASSUME NEW c \in Clusters, AgentWrite(c) PROVE ModeKept'
  <2>1. pc' = "blank" /\ plan'.mode = "agent"
    BY <1>0, <1>5, PlanMode DEF AgentWrite
  <2> QED BY <2>1 DEF ModeKept
<1>6. ASSUME NEW c \in Clusters, NEW src \in Sources, PushBuild(c, src) PROVE ModeKept'
  <2>1. /\ pc' = "write" /\ plan.mode \in {"push", "blank"} /\ c \in plan.left /\ UNCHANGED plan
        /\ cluster' = c /\ slot' = SlotFor(c, src) /\ src \in Usable(c)
    BY <1>6 DEF PushBuild, Chosen
  <2>2. slot' \in PushNames
    BY <1>0, <2>1 DEF SlotFor, PushNames, Plan
  <2>3. src = "blank" <=> plan.mode = "blank"
    BY <2>1 DEF Usable
  <2>4. new' = [src |-> src, token |-> TokenFor(c, src), typed |-> TRUE]
    BY <1>6, Zenon DEF PushBuild
  <2>5. new'.src = src
    BY <2>4
  <2> QED BY <2>1, <2>2, <2>3, <2>5 DEF ModeKept
<1>7. CASE PushWrite
  <2>1. secrets'[cluster][slot] = new
    BY <1>0, <1>7 DEF PushWrite, IInv, TypeOK
  <2> QED BY <1>7, <2>1 DEF PushWrite, clusterPc, Evidence, ModeKept
<1>8. CASE \/ CleanupOldClusterSecrets \/ ListOld \/ Delabel \/ DeleteOld \/ Relabel
           \/ \E n \in Slots : KeepOld(n) \/ CheckOld(n)
  <2>1. pc \in CleanupPCs /\ pc' \in CleanupPCs /\ UNCHANGED <<plan, cluster, slot, new>>
    BY <1>8 DEF CleanupOldClusterSecrets, ListOld, Delabel, DeleteOld, Relabel, KeepOld, CheckOld, clusterPc
  <2>2. secrets'[cluster][slot] = secrets[cluster][slot]
    <3>1. ~PushWrite /\ slot \in PushNames /\ plan.mode # "agent"
      BY <2>1 DEF PushWrite, Evidence, ModeKept
    <3> QED BY <1>0, <2>1, <3>1, NamedStay
  <2> QED BY <2>1, <2>2 DEF Evidence, ModeKept
<1>9. CASE PushWriteFails
  <2>1. pc = "write" /\ pc' = "pick" /\ plan'.mode = plan.mode
    BY <1>0, <1>9, PlanMode DEF PushWriteFails
  <2> QED BY <2>1 DEF Evidence, ModeKept
<1>10. CASE FinishCluster
  <2>1. pc = "old" /\ pc' = "pick" /\ plan'.mode = plan.mode
    BY <1>0, <1>10, PlanMode DEF FinishCluster
  <2> QED BY <2>1 DEF Evidence, ModeKept
<1>11. CASE DeleteBlankClusterSecrets
  BY <1>11 DEF DeleteBlankClusterSecrets, Evidence, ModeKept
<1>12. ASSUME NEW r \in Requests, Begin(r) \/ BeginFails(r) PROVE ModeKept'
  BY <1>1, <1>12 DEF Begin, BeginFails
<1>13. ASSUME NEW g \in GitOpsClusters, SkipGitOpsCluster(g) \/ StartFails(g) PROVE ModeKept'
  BY <1>1, <1>13 DEF SkipGitOpsCluster, StartFails
<1>14. ASSUME NEW c \in Clusters, NEW n \in Slots, KeepOrphan(c, n) \/ CheckOrphan(c, n) PROVE ModeKept'
  BY <1>1, <1>14 DEF KeepOrphan, CheckOrphan
<1>15. CASE ImportFails \/ FinishGitOpsCluster \/ BeginCleanup \/ DeleteOrphan \/ EndPass
  BY <1>1, <1>15 DEF ImportFails, FinishGitOpsCluster, BeginCleanup, DeleteOrphan, EndPass
<1> QED BY <1>2, <1>3, <1>4, <1>5, <1>6, <1>7, <1>8, <1>9, <1>10, <1>11, <1>12, <1>13, <1>14, <1>15
        DEF Reconcile

\* What the clusters struck off have is not touched by the import of the others.
LEMMA OthersKeepTheirs ==
  ASSUME IInv, Evidence, Reconcile, pc \in ImportPCs, plan.mode # "agent",
         NEW c \in Clusters \ plan.left, HasSecretOf(c, plan.mode)
  PROVE  \E n \in PushNames : /\ secrets'[c][n].typed
                              /\ plan.mode = "blank" <=> secrets'[c][n].src = "blank"
<1>1. PICK n \in PushNames : secrets[c][n].typed /\ (plan.mode = "blank" <=> secrets[c][n].src = "blank")
  BY DEF HasSecretOf
<1>2. secrets'[c][n] = secrets[c][n]
  BY NamedStay
<1> QED BY <1>1, <1>2

\* A cluster leaves the plan with a failure or with its secret, and the secret stays.
LEMMA ImportedStep ==
  ASSUME IInv, Evidence, Reconcile
  PROVE  ImportedSoFar'
<1> DEFINE Has(c) == \E n \in PushNames : /\ secrets'[c][n].typed
                                          /\ plan'.mode = "blank" <=> secrets'[c][n].src = "blank"
<1> SUFFICES ASSUME pc' \in ImportPCs, plan'.mode # "agent", ~plan'.failed,
                    NEW c \in plan'.all \ plan'.left
             PROVE  Has(c)
  BY DEF ImportedSoFar, HasSecretOf
<1>0. plan \in Plan
  BY DEF IInv, TypeOK
<1>1. CASE /\ pc \in ImportPCs /\ plan'.mode = plan.mode /\ plan'.all = plan.all
           /\ plan.failed = plan'.failed /\ plan'.left = plan.left
  <2>1. c \in Clusters \ plan.left /\ HasSecretOf(c, plan.mode)
    BY <1>0, <1>1 DEF Evidence, ImportedSoFar, Plan
  <2> HIDE DEF Has
  <2>2. Has(c)
    BY <1>1, <2>1, OthersKeepTheirs DEF Has
  <2> QED BY <2>2
<1>2. ASSUME NEW g \in GitOpsClusters, Start(g) PROVE FALSE
  BY <1>2 DEF Start
<1>3. CASE FinishCluster
  <2>1. /\ pc = "old" /\ plan' = [plan EXCEPT !.left = @ \ {cluster}] /\ UNCHANGED secrets
    BY <1>3 DEF FinishCluster
  <2>2. plan'.mode = plan.mode /\ plan'.all = plan.all /\ plan'.failed = plan.failed
        /\ plan'.left = plan.left \ {cluster}
    BY <1>0, <2>1, PlanMode
  <2>3. CASE c = cluster
    <3>1. slot \in PushNames /\ secrets[c][slot] = new /\ (new.src = "blank" <=> plan.mode = "blank")
      BY <2>1, <2>3 DEF Evidence, ModeKept, PushPCs, CleanupPCs
    <3>2. secrets[c][slot].typed
      BY <2>1, <2>3 DEF IInv, NewSecretKept, CleanupPCs
    <3> QED BY <2>1, <2>2, <3>1, <3>2
  <2>4. CASE c # cluster
    <3>1. HasSecretOf(c, plan.mode)
      BY <1>0, <2>1, <2>2, <2>4 DEF Evidence, ImportedSoFar, Plan, ImportPCs
    <3> QED BY <2>1, <2>2, <3>1 DEF HasSecretOf
  <2> QED BY <2>3, <2>4
<1>4. CASE BeginImport
  <2>1. /\ pc = "import" /\ plan'.mode = plan.mode /\ plan'.all = plan.all
        /\ plan'.failed = plan.failed /\ plan'.left = plan.left
    BY <1>0, <1>4 DEF BeginImport, Plan
  <2> QED BY <1>1, <2>1 DEF ImportPCs
<1>5. ASSUME NEW d \in Clusters, PushSkips(d) PROVE FALSE
  BY <1>0, <1>5, PlanMode DEF PushSkips
<1>6. CASE PushWriteFails
  BY <1>0, <1>6, PlanMode DEF PushWriteFails
<1>7. ASSUME NEW d \in Clusters, AgentWrite(d) \/ AgentSkips(d) PROVE FALSE
  <2>1. plan' = [plan EXCEPT !.left = @ \ {d}] /\ plan.mode = "agent"
    BY <1>7, Zenon DEF AgentWrite, AgentSkips
  <2> QED BY <1>0, <2>1, PlanMode
<1>8. CASE \/ CleanupOldClusterSecrets \/ ListOld \/ Delabel \/ DeleteOld \/ Relabel \/ PushWrite
           \/ DeleteBlankClusterSecrets \/ (\E n \in Slots : KeepOld(n) \/ CheckOld(n))
           \/ \E d \in Clusters, src \in Sources : PushBuild(d, src)
  <2>1. pc \in ImportPCs /\ UNCHANGED plan
    BY <1>8 DEF CleanupOldClusterSecrets, ListOld, Delabel, DeleteOld, Relabel, KeepOld, CheckOld,
       PushWrite, DeleteBlankClusterSecrets, PushBuild, ImportPCs
  <2> QED BY <1>1, <2>1
<1>9. ASSUME NEW r \in Requests, Begin(r) \/ BeginFails(r) PROVE FALSE
  BY <1>9 DEF Begin, BeginFails, ImportPCs
<1>10. ASSUME NEW g \in GitOpsClusters, SkipGitOpsCluster(g) \/ StartFails(g) PROVE FALSE
  BY <1>10 DEF SkipGitOpsCluster, StartFails, ImportPCs
<1>11. ASSUME NEW d \in Clusters, NEW n \in Slots, KeepOrphan(d, n) \/ CheckOrphan(d, n) PROVE FALSE
  BY <1>11 DEF KeepOrphan, CheckOrphan, ImportPCs
<1>12. CASE ImportFails \/ FinishGitOpsCluster \/ BeginCleanup \/ DeleteOrphan \/ EndPass
  BY <1>12 DEF ImportFails, FinishGitOpsCluster, BeginCleanup, DeleteOrphan, EndPass, ImportPCs
<1> HIDE DEF Has
<1> QED BY <1>2, <1>3, <1>4, <1>5, <1>6, <1>7, <1>8, <1>9, <1>10, <1>11, <1>12, Zenon
        DEF Reconcile

\* What the worker relies on holds, whatever users, failures and crashes do in between.
THEOREM EvidenceHolds == Spec => []Evidence
<1>1. Init => Evidence
  <2> SUFFICES ASSUME Init PROVE Evidence
    OBVIOUS
  <2>1. pc = "idle" /\ \A c \in Clusters, n \in Slots : secrets[c][n] = Gone
    BY DEF Init
  <2>2. OneStranded
    BY <2>1 DEF OneStranded, Stranded, Gone
  <2>3. UserApart
    BY <2>1 DEF UserApart, Acm, Gone, Slots
  <2> QED BY <2>1, <2>2, <2>3 DEF Evidence, OldUnused, ModeKept, ImportedSoFar, ImportPCs, PushPCs, CleanupPCs
<1>2. ASSUME IInv, Evidence, Environment PROVE Evidence'
  <2>1. OneStranded'
    BY <1>2, StrandedStep DEF Next
  <2>2. UserApart'
    BY <1>2, EnvironmentLeaves DEF Evidence, UserApart
  <2>3. OldUnused'
    <3>1. pc \in {"delabel", "delete"} => secrets'[cluster][old] = secrets[cluster][old]
      BY <1>2, EnvironmentLeaves DEF Evidence, UserApart, IInv, TypeOK
    <3> QED BY <1>2, <3>1, EnvironmentLeaves DEF Evidence, OldUnused
  <2>4. ModeKept'
    <3>1. pc \in CleanupPCs => secrets'[cluster][slot] = secrets[cluster][slot]
      BY <1>2, EnvironmentLeaves DEF IInv, NewSecretKept, TypeOK
    <3> QED BY <1>2, <3>1, EnvironmentLeaves DEF Evidence, ModeKept
  <2>5. ImportedSoFar'
    <3>1. \A c \in Clusters, n \in PushNames : secrets'[c][n] = secrets[c][n]
      BY <1>2, EnvironmentLeaves DEF PushNames, Slots
    <3>2. plan.all \subseteq Clusters
      BY <1>2 DEF IInv, TypeOK, Plan
    <3> QED BY <1>2, <3>1, <3>2, EnvironmentLeaves DEF Evidence, ImportedSoFar, HasSecretOf
  <2> QED BY <2>1, <2>2, <2>3, <2>4, <2>5 DEF Evidence
<1>3. ASSUME IInv, Evidence, Reconcile PROVE Evidence'
  BY <1>3, StrandedStep, UserApartStep, OldUnusedStep, ModeKeptStep, ImportedStep DEF Evidence, Next
<1>4. ASSUME IInv, Evidence, Crash PROVE Evidence'
  <2>1. pc' = "idle" /\ UNCHANGED secrets
    BY <1>4 DEF Crash
  <2>2. OneStranded'
    BY <1>4, StrandedStep DEF Next
  <2>3. UserApart'
    BY <1>4, <2>1 DEF Evidence, UserApart
  <2> QED BY <2>1, <2>2, <2>3 DEF Evidence, OldUnused, ModeKept, ImportedSoFar, ImportPCs, PushPCs, CleanupPCs
<1>5. ASSUME IInv, Evidence, UNCHANGED vars PROVE Evidence'
  <2>1. UNCHANGED <<pc, cluster, slot, new, olds, old, plan, secrets, steadyRefs>>
    BY <1>5 DEF vars, clusterPc, history
  <2>2. OneStranded'
    BY <1>5, StrandedStep
  <2> QED BY <1>5, <2>1, <2>2
          DEF Evidence, UserApart, OldUnused, ModeKept, ImportedSoFar, HasSecretOf
<1>6. IInv /\ Evidence /\ [Next]_vars => Evidence'
  BY <1>2, <1>3, <1>4, <1>5 DEF Next
<1> QED BY <1>1, <1>6, InductiveInvariant, PTL DEF Spec

\* A secret is de-labelled before it is deleted, and no later list shows it then: it outlives
\* this only through a crash, or when delete and relabel both failed
\* (cleanupOldArgoClusterSecrets and its recovery).
THEOREM StrandedOnlyByTwoFailures == Spec => []StrandedNeedsTwoFailures
<1>1. IInv /\ Evidence => StrandedNeedsTwoFailures
  <2> SUFFICES ASSUME IInv, Evidence, NEW c \in Clusters, NEW n \in Slots,
                      secrets[c][n].src # "none", ~secrets[c][n].typed
               PROVE  pc \in {"delete", "relabel"} \/ crashes > 0 \/ faults >= 2
    BY DEF StrandedNeedsTwoFailures
  <2>1. crashes \in Nat /\ faults \in Nat
    BY DEF IInv, TypeOK
  <2> QED BY <2>1 DEF Evidence, OneStranded, Stranded
<1> QED BY <1>1, EvidenceHolds, InductiveInvariant, PTL

\* A server that an Application named for the whole pass does not lose its secret to the new one
\* of another server, although the check is several calls before the removal
\* (isOldSecretReferencedByArgoApps in cleanupOldArgoClusterSecrets).
THEOREM ReferencedStays == Spec => ReferencedServerStays
<1> DEFINE Unused(c, n) == \/ <<c, ServerOf(secrets[c][n])>> \notin steadyRefs'
                           \/ ServerOf(new) = ServerOf(secrets[c][n])
<1>1. ASSUME IInv, Evidence, [Next]_vars, NEW c \in Clusters, NEW n \in Slots,
             pc \notin {"orphan", "blank"}, secrets[c][n].typed, ~secrets'[c][n].typed, n # "user"
      PROVE  Unused(c, n)
  <2>1. ~Environment
    BY <1>1, EnvironmentLeaves
  <2>2. Reconcile
    BY <1>1, <2>1 DEF Next, Crash, vars
  <2>3. ~Written(c, n) /\ ~Registers(c, n) /\ ~Kept(c, n)
    BY <1>1 DEF Written, PushWrite, Registers, Kept, IInv, NewSecretKept
  <2>4. ~Restores(c, n)
    BY <1>1 DEF Restores, IInv, TypeOK, Secret
  <2>5. ~Removes(c, n)
    BY <1>1 DEF Removes, DeleteOld, DeleteOrphan, DeleteBlankClusterSecrets, Evidence, OldUnused
  <2>6. Hides(c, n)
    BY <1>1, <2>2, <2>3, <2>4, <2>5, SecretsEffect
  <2>7. pc = "delabel" /\ c = cluster /\ n = old /\ UNCHANGED steadyRefs
    BY <2>6 DEF Hides, Delabel, history
  <2> QED BY <1>1, <2>7 DEF Evidence, OldUnused
<1>2. IInv /\ Evidence /\ [Next]_vars =>
        \A c \in Clusters, n \in Slots :
          /\ pc \notin {"orphan", "blank"}
          /\ secrets[c][n].typed /\ ~secrets'[c][n].typed /\ n # "user"
          => Unused(c, n)
  BY <1>1
<1> QED BY <1>2, EvidenceHolds, InductiveInvariant, PTL DEF Spec, ReferencedServerStays

\* The status says that all clusters are registered only if each of the selected ones has a
\* visible secret, of the mode of this very pass, however the import of the others went
\* (CreateManagedClusterSecretsForArgo and the condition ClustersRegistered).
THEOREM SuccessIsTrue == Spec => SuccessMeansRegistered
<1>1. ASSUME IInv, Evidence, [Next]_vars, NEW g \in GitOpsClusters, pc = "pick", pc' = "next",
             plan.g = g, plan.mode # "agent", registered'[g] = "True", registered[g] # "True"
      PROVE  \A c \in plan.all : HasSecretOf(c, plan.mode)
  <2>1. registered' # registered
    BY <1>1
  <2>2. FinishGitOpsCluster
    BY <1>1, <2>1, Zenon DEF Next, Environment, DeleteManagedCluster, CreateManagedCluster, RotateToken,
       ChangeAccess, EditUserSecret, Decide, EditApplication, EditGitOpsCluster, EnvUnchanged, vars, Crash,
       Reconcile, Begin, BeginFails, SkipGitOpsCluster, StartFails, Start, ImportFails,
       BeginImport, PushSkips, PushBuild, AgentWrite, AgentSkips, KeepOrphan, CheckOrphan, PushWrite,
       PushWriteFails, CleanupOldClusterSecrets, ListOld, KeepOld, CheckOld, Delabel, DeleteOld, Relabel,
       FinishCluster, DeleteBlankClusterSecrets, BeginCleanup, DeleteOrphan, EndPass
  <2>3. plan.left = {} /\ registered' = [registered EXCEPT ![g] = Outcome]
    BY <1>1, <2>1, <2>2, Zenon DEF FinishGitOpsCluster
  <2>4. ~plan.failed
    BY <1>1, <2>3 DEF Outcome, IInv, TypeOK
  <2> QED BY <1>1, <2>3, <2>4 DEF Evidence, ImportedSoFar, ImportPCs
<1>2. IInv /\ Evidence /\ [Next]_vars =>
        \A g \in GitOpsClusters :
          /\ pc = "pick" /\ pc' = "next" /\ plan.g = g /\ plan.mode # "agent"
          /\ registered'[g] = "True" /\ registered[g] # "True"
          => \A c \in plan.all : \E n \in {"plain", "msa", "custom"} :
                /\ secrets[c][n].typed
                /\ plan.mode = "blank" <=> secrets[c][n].src = "blank"
  BY <1>1 DEF HasSecretOf, PushNames
<1> QED BY <1>2, EvidenceHolds, InductiveInvariant, PTL DEF Spec, SuccessMeansRegistered
=============================================================================
